---- MODULE Spec2Model ----
(***************************************************************************)
(* thornhall/blog: the identity-deduplicated stats ledger (internal/repo:   *)
(* GetStats, IncrementViews, IncrementLikes) over the SQLite store opened  *)
(* by internal/db.New; the HTTP handlers in front of it with the identity  *)
(* normalizer (internal/handler: GetClientIP, NormalizeIP, isValidSlug);   *)
(* and the backup worker (internal/tasks, internal/backup) as cmd/server   *)
(* starts and stops it.                                                    *)
(*                                                                         *)
(* The store is the committed content of the three tables.  A write        *)
(* transaction works on a private copy (uncommitted WAL frames) under the  *)
(* store's single write lock; COMMIT publishes the copy, ROLLBACK drops    *)
(* it.  A statement that needs the write lock while another connection     *)
(* holds it waits (busy_timeout) and either gets the lock later or gives   *)
(* up with SQLITE_BUSY.                                                    *)
(*                                                                         *)
(* Several next-state relations share the variables: Next / NextFault /    *)
(* NextCancel (concurrent repo calls; with storage failures; with the      *)
(* cancellation of a call's context as database/sql carries it out;        *)
(* SpecLive adds the scheduling of the calls), NextHttp (requests served   *)
(* one at a time), NextIdentity (GetClientIP alone), NextOrigin (one view  *)
(* or like request with every shape of forwarding header), NextBackup      *)
(* (the backup worker; SpecBackupLive adds the scheduling of its           *)
(* goroutine), NextService (repo calls beside the backup worker in one     *)
(* process) and NextShutdown (main's shutdown sequence beside open stats   *)
(* streams and repo calls).                                                *)
(***************************************************************************)
EXTENDS Integers, FiniteSets, Sequences, TLC

\* Number of call slots: calls that can be in flight or finished in one run.
MaxCalls == 2

\* Number of distinct visitor identities (normalized addresses).
NumIps == 2

Calls == 1..MaxCalls
SlugSeq == <<"a", "b">>
Slugs == {SlugSeq[i] : i \in 1..Len(SlugSeq)}
Ips == 1..NumIps
Keys == Ips \X Slugs

VARIABLES
    post_stats,  \* committed table post_stats: slug -> row
    ip_views,    \* committed table ip_views: (ip, post_slug) -> number of rows
    ip_likes,    \* committed table ip_likes: (ip, post_slug) -> number of rows
    wlock,       \* holder of the store's write lock, 0 when free
    wtx,         \* working copy of the open write transaction
    call,        \* one record per call slot
    http,        \* the HTTP exchange handled last: request and response
    backup,      \* the backup worker: its goroutine, its ticker, its history
    bucket,      \* the objects of the remote bucket
    dbfile,      \* content of the storage file blog.db (a version number)
    proc         \* the process: environment, main's position, backupCtx,
                 \* engineCtx, the stats stream handlers

vars == <<post_stats, ip_views, ip_likes, wlock, wtx, call, http,
          backup, bucket, dbfile, proc>>

\* The backup worker and what it works on.
bvars == <<backup, bucket, dbfile, proc>>

\* State outside the repo: no repo statement reads or writes it.
env == <<http, backup, bucket, dbfile, proc>>

(***************************************************************************)
(* Tables.                                                                 *)
(***************************************************************************)
NoRow == [present |-> FALSE, views |-> 0, likes |-> 0]

Row(v, l) == [present |-> TRUE, views |-> v, likes |-> l]

EmptyStats == [s \in Slugs |-> NoRow]

EmptyDedup == [k \in Keys |-> 0]

Store == [post_stats |-> post_stats, ip_views |-> ip_views, ip_likes |-> ip_likes]

NoTx == [post_stats |-> EmptyStats, ip_views |-> EmptyDedup, ip_likes |-> EmptyDedup]

(***************************************************************************)
(* SQL statements as functions on table contents.                          *)
(***************************************************************************)

\* Plain INSERT into a table without the primary key: no conflict, a second row.
InsertAlways(tbl, ip, slug) ==
    [tbl |-> [tbl EXCEPT ![<<ip, slug>>] = @ + 1], rows |-> 1]

\* The insert into a dedup table whose primary key is ip alone: a row of the
\* identity for any slug is a conflict.
InsertIgnoreByIp(tbl, ip, slug) ==
    IF \E k \in DOMAIN tbl : k[1] = ip /\ tbl[k] > 0
    THEN [tbl |-> tbl, rows |-> 0]
    ELSE [tbl |-> [tbl EXCEPT ![<<ip, slug>>] = 1], rows |-> 1]

\* INSERT INTO ip_views/ip_likes (ip, post_slug) VALUES (?, ?)
\* ON CONFLICT(ip, post_slug) DO NOTHING; rows is RowsAffected.
InsertIgnore(tbl, ip, slug) ==
    IF tbl[<<ip, slug>>] > 0
    THEN [tbl |-> tbl, rows |-> 0]
    ELSE [tbl |-> [tbl EXCEPT ![<<ip, slug>>] = 1], rows |-> 1]

\* INSERT OR REPLACE INTO post_stats VALUES (?, 1, 0): overwrites the row.
ReplaceViews(ps, slug) == [ps EXCEPT ![slug] = Row(1, 0)]

\* INSERT INTO post_stats VALUES (?, 1, 0)
\* ON CONFLICT(slug) DO UPDATE SET views = views + 1
UpsertViews(ps, slug) ==
    IF ps[slug].present
    THEN [ps EXCEPT ![slug].views = @ + 1]
    ELSE [ps EXCEPT ![slug] = Row(1, 0)]

\* The likes statement with the conflict clause of the views statement:
\* ON CONFLICT(slug) DO UPDATE SET views = views + 1.
UpsertLikesAsViews(ps, slug) ==
    IF ps[slug].present
    THEN [ps EXCEPT ![slug].views = @ + 1]
    ELSE [ps EXCEPT ![slug] = Row(0, 1)]

\* INSERT INTO post_stats VALUES (?, 0, 1)
\* ON CONFLICT(slug) DO UPDATE SET likes = likes + 1
UpsertLikes(ps, slug) ==
    IF ps[slug].present
    THEN [ps EXCEPT ![slug].likes = @ + 1]
    ELSE [ps EXCEPT ![slug] = Row(0, 1)]

\* SELECT views, likes FROM post_stats WHERE slug = ?: sql.ErrNoRows on a
\* missing row, no write.
SelectStats(ps, slug) ==
    IF ps[slug].present
    THEN [ps |-> ps, err |-> "", views |-> ps[slug].views, likes |-> ps[slug].likes]
    ELSE [ps |-> ps, err |-> "norows", views |-> 0, likes |-> 0]

\* INSERT OR REPLACE INTO post_stats VALUES (?, 0, 0) RETURNING views, likes.
ReplaceZero(ps, slug) ==
    [ps |-> [ps EXCEPT ![slug] = Row(0, 0)], err |-> "", views |-> 0, likes |-> 0]

\* INSERT INTO post_stats VALUES (?, 0, 0)
\* ON CONFLICT(slug) DO UPDATE SET views = views RETURNING views, likes;
\* then row.Scan(&s.Views, &s.Likes).
StatsQuery(ps, slug) ==
    IF ps[slug].present
    THEN [ps |-> ps, err |-> "", views |-> ps[slug].views, likes |-> ps[slug].likes]
    ELSE [ps |-> [ps EXCEPT ![slug] = Row(0, 0)], err |-> "", views |-> 0, likes |-> 0]

\* Statements outside a transaction: every statement is published at once.
AutoCommit(committed, working) == working

\* What other connections see while a transaction is open (BeginTx ...
\* Commit): the committed store, never the working copy.
Isolated(committed, working) == committed

(***************************************************************************)
(* Addresses and their text.  A parsed address (net.IP) is a tuple of bit  *)
(* groups: the 16-byte form is <<bits 0-63, bits 64-95, bits 96-127>>, the *)
(* 4-byte form is <<bits 0-31>>, nil is <<>>.  A host text is the dotted   *)
(* quad of an address ("v4"), a colon-hex text of one ("v6", canon when it *)
(* is the spelling IP.String prints), something that is no address         *)
(* ("junk") or the empty string ("empty").  An address string is a host    *)
(* text, in brackets or not, with a ":port" suffix or not.                 *)
(***************************************************************************)

\* Number of distinct host parts (trailing bits) of the addresses.
NumHosts == 2

\* Number of distinct non-zero routing prefixes (leading 64 bits).
NumPrefixes == 2

Hosts == 1..NumHosts

Prefixes == 1..NumPrefixes

NilIP == <<>>

\* Bits 64-95 of an IPv4-mapped address: 0000ffff (v4InV6Prefix).
V4Tag == 65535

\* net.IPv4(a, b, c, d): ParseIP returns IPv4 addresses in the 16-byte form.
IPv4(n) == <<0, V4Tag, n>>

IPv6(hi, low) == <<hi, 0, low>>

Dotted(n) == [form |-> "v4", ip |-> IPv4(n), canon |-> TRUE]

Hex(ip, canon) == [form |-> "v6", ip |-> ip, canon |-> canon]

Garbage == [form |-> "junk", ip |-> NilIP, canon |-> FALSE]

NoText == [form |-> "empty", ip |-> NilIP, canon |-> FALSE]

\* A host text standing alone: no brackets, no port.
Bare(h) == [host |-> h, brackets |-> FALSE, port |-> FALSE]

\* "host:port", with the brackets a colon-hex host needs.
WithPort(h) == [host |-> h, brackets |-> h.form = "v6", port |-> TRUE]

\* "[host]" without a port.
Bracketed(h) == [host |-> h, brackets |-> TRUE, port |-> FALSE]

\* The empty string: a header that is not set, and the failure signal.
EmptyString == Bare(NoText)

\* Colon-hex texts: both spellings of the IPv6 addresses, and the colon-hex
\* spelling of the IPv4-mapped ones (::ffff:a.b.c.d).
HexTexts ==
    {Hex(IPv6(p, n), k) : p \in Prefixes, n \in Hosts, k \in BOOLEAN}
        \cup {Hex(IPv4(n), FALSE) : n \in Hosts}

HostTexts == {Dotted(n) : n \in Hosts} \cup HexTexts \cup {Garbage}

AddrStrings ==
    {Bare(h) : h \in HostTexts} \cup {WithPort(h) : h \in HostTexts}
        \cup {Bracketed(h) : h \in HexTexts}

\* net.SplitHostPort(address) returns no error.
SplitOk(address) ==
    address.port /\ (address.host.form = "v6" => address.brackets)

\* net.ParseIP(s): nil unless s is exactly the text of an address.
ParseIP(s) ==
    IF s.port \/ s.brackets \/ s.host.form \notin {"v4", "v6"}
    THEN NilIP
    ELSE s.host.ip

\* ip.To4(): the 4-byte form of a 4-byte or IPv4-mapped address, else nil.
To4(ip) ==
    IF Len(ip) = 1 THEN ip
    ELSE IF Len(ip) = 3 /\ ip[1] = 0 /\ ip[2] = V4Tag THEN <<ip[3]>>
    ELSE NilIP

\* A mask that keeps every bit (net.CIDRMask(128, 128)).
CIDRMaskAll == <<TRUE, TRUE, TRUE>>

\* net.CIDRMask(64, 128): the leading 64 bits set, the trailing 64 clear.
CIDRMask == <<TRUE, FALSE, FALSE>>

\* ip.Mask(mask) for an address and a mask of the same length.
Mask(ip, mask) == [i \in 1..Len(ip) |-> IF mask[i] THEN ip[i] ELSE 0]

\* ip.String(): dotted quad when the address has a 4-byte form, else the
\* canonical colon-hex text.
String(ip) ==
    IF To4(ip) # NilIP
    THEN Bare(Dotted(To4(ip)[1]))
    ELSE Bare(Hex(ip, TRUE))

\* NormalizeIP that prints a masked address in brackets, as in a URL.
NormalizeBracketed(address) ==
    LET a == IF SplitOk(address) THEN Bare(address.host) ELSE address
        ip == ParseIP(a)
    IN IF ip = NilIP THEN EmptyString
       ELSE IF To4(ip) # NilIP THEN String(To4(ip))
       ELSE Bracketed(String(Mask(ip, CIDRMask)).host)

\* NormalizeIP without the To4 branch: every address is masked.
MaskEvery(address) ==
    LET a == IF SplitOk(address) THEN Bare(address.host) ELSE address
        ip == ParseIP(a)
    IN IF ip = NilIP THEN EmptyString ELSE String(Mask(ip, CIDRMask))

NormalizeIP(address) ==
    LET a == IF SplitOk(address) THEN Bare(address.host) ELSE address
        ip == ParseIP(a)
    IN IF ip = NilIP THEN EmptyString
       ELSE IF To4(ip) # NilIP THEN String(To4(ip))
       ELSE String(Mask(ip, CIDRMask))

\* GetClientIP that goes on to the next source when one is no address.
ClientIPFallback(r) ==
    LET first == IF r.xff # <<>> THEN NormalizeIP(r.xff[1]) ELSE EmptyString
        real == IF r.xrip # EmptyString THEN NormalizeIP(r.xrip) ELSE EmptyString
    IN IF first # EmptyString THEN first
       ELSE IF real # EmptyString THEN real
       ELSE NormalizeIP(r.remote)

\* GetClientIP that skips X-Real-IP.
ClientIPNoRealIP(r) ==
    IF r.xff # <<>>
    THEN NormalizeIP(r.xff[1])
    ELSE NormalizeIP(r.remote)

\* GetClientIP(r).  r.xff is the X-Forwarded-For value split at its commas
\* (<<>> when the header is empty or not set), r.xrip the X-Real-IP value,
\* r.remote is r.RemoteAddr.
GetClientIP(r) ==
    IF r.xff # <<>>
    THEN NormalizeIP(r.xff[1])
    ELSE IF r.xrip # EmptyString
         THEN NormalizeIP(r.xrip)
         ELSE NormalizeIP(r.remote)

(***************************************************************************)
(* Call slots.  pc: idle, insert, update, commit, getstats, done.          *)
(* pre and inc are history: pre = the dedup record of (ip, slug) existed   *)
(* when the call started; inc = number of counter increments the call's    *)
(* transaction committed; cviews, clikes = the row as of that commit.      *)
(***************************************************************************)
(***************************************************************************)
(* The process and the backup worker at rest.                              *)
(***************************************************************************)

\* The environment variables NewSpaceClient reads and the outcome of
\* config.LoadDefaultConfig: ENV, whether the SPACES_* variables are set,
\* whether the SDK configuration loads.
Environ(e, creds, sdk) == [ENV |-> e, creds |-> creds, sdk |-> sdk]

\* The connections on which a client may open GET /api/streams/stats.
Streams == {1, 2}

\* No request for the stats stream has arrived on the connection.
NoStream == [pos |-> "none", gone |-> FALSE]

\* main is serving (blocked on shutDownChan); backupCtx (cancelled) and
\* engineCtx (engine) are not cancelled; no stats stream is open.
Serving(environ) ==
    [environ |-> environ, main |-> "serving", cancelled |-> FALSE,
     engine |-> FALSE, streams |-> [s \in Streams |-> NoStream]]

\* No BackupService exists: no goroutine, no ticker, nothing logged.
NoWorker ==
    [state |-> "None", step |-> "", tick |-> 0, fired |-> 0,
     cycles |-> 0, calls |-> 0, ccalls |-> 0, opened |-> FALSE,
     failures |-> 0, key |-> <<>>, body |-> <<>>, log |-> ""]

\* The state of the process parts the repo and the handlers do not use.
NoBackup ==
    /\ backup = NoWorker
    /\ bucket = {}
    /\ dbfile = 0
    /\ proc = Serving(Environ("", FALSE, TRUE))

\* No request has been handled.
NoExchange ==
    [n |-> 0, handler |-> "none", slug |-> <<>>,
     xff |-> <<>>, xrip |-> EmptyString, remote |-> EmptyString,
     ip |-> EmptyString, op |-> "none", status |-> 0, msg |-> "",
     views |-> 0, likes |-> 0]

IdleCall ==
    [op |-> "none", ip |-> 0, slug |-> "", pc |-> "idle", rows |-> 0,
     err |-> "", views |-> 0, likes |-> 0,
     pre |-> FALSE, inc |-> 0, cviews |-> 0, clikes |-> 0]

IncOps == {"IncrementViews", "IncrementLikes"}

\* New calls take the lowest free slot.
CanStart(c) ==
    /\ call[c].pc = "idle"
    /\ \A d \in Calls : d < c => call[d].pc # "idle"

\* Identities and slugs are interchangeable, so a run names them in the order
\* in which its calls first use them: a call carries a value already used by
\* an earlier call or the first unused one.
NextIp(ip) ==
    ip <= Cardinality({call[c].ip : c \in {d \in Calls : call[d].ip # 0}}) + 1

NextSlug(slug) ==
    \E i \in 1..Len(SlugSeq) :
        /\ SlugSeq[i] = slug
        /\ i <= Cardinality({call[c].slug : c \in {d \in Calls : call[d].slug # ""}}) + 1

Init ==
    /\ post_stats = EmptyStats
    /\ ip_views = EmptyDedup
    /\ ip_likes = EmptyDedup
    /\ wlock = 0
    /\ wtx = NoTx
    /\ call = [c \in Calls |-> IdleCall]
    /\ http = NoExchange
    /\ NoBackup

\* Entry of GetStats(ctx, slug).
GetStatsCall(c) ==
    /\ CanStart(c)
    /\ \E slug \in Slugs :
         /\ NextSlug(slug)
         /\ call' = [call EXCEPT ![c] =
                       [IdleCall EXCEPT !.op = "GetStats", !.slug = slug,
                                        !.pc = "getstats"]]
    /\ UNCHANGED <<post_stats, ip_views, ip_likes, wlock, wtx>>
    /\ UNCHANGED env

\* Entry of IncrementViews / IncrementLikes: tx, err := r.db.BeginTx(ctx, nil).
\* BEGIN is deferred: no lock is taken and nothing is read yet.
BeginTx(c) ==
    /\ CanStart(c)
    /\ \E op \in IncOps, ip \in Ips, slug \in Slugs :
         /\ NextIp(ip)
         /\ NextSlug(slug)
         /\ call' = [call EXCEPT ![c] =
                       [IdleCall EXCEPT
                          !.op = op, !.ip = ip, !.slug = slug, !.pc = "insert",
                          !.pre = IF op = "IncrementViews"
                                  THEN ip_views[<<ip, slug>>] > 0
                                  ELSE ip_likes[<<ip, slug>>] > 0]]
    /\ UNCHANGED <<post_stats, ip_views, ip_likes, wlock, wtx>>
    /\ UNCHANGED env

\* Publishes store s as the committed content of the three tables.
Publish(s) ==
    /\ post_stats' = s.post_stats
    /\ ip_views' = s.ip_views
    /\ ip_likes' = s.ip_likes

\* The call returns (Stats{}, err).
ReturnErr(c, e) ==
    call' = [call EXCEPT ![c].pc = "done", ![c].err = e,
                         ![c].views = 0, ![c].likes = 0]

\* An insert into one dedup set shared by views and likes: a record of the
\* pair in either table is a conflict.
InsertDedupShared(c) ==
    /\ call[c].pc = "insert"
    /\ wlock = 0
    /\ LET ip == call[c].ip
           slug == call[c].slug
           taken == ip_views[<<ip, slug>>] > 0 \/ ip_likes[<<ip, slug>>] > 0
           r == IF taken
                THEN [tbl |-> IF call[c].op = "IncrementViews"
                              THEN ip_views ELSE ip_likes,
                      rows |-> 0]
                ELSE IF call[c].op = "IncrementViews"
                     THEN InsertIgnore(ip_views, ip, slug)
                     ELSE InsertIgnore(ip_likes, ip, slug)
           w == IF call[c].op = "IncrementViews"
                THEN [Store EXCEPT !.ip_views = r.tbl]
                ELSE [Store EXCEPT !.ip_likes = r.tbl]
       IN /\ wlock' = c
          /\ wtx' = w
          /\ Publish(Isolated(Store, w))
          /\ call' = [call EXCEPT ![c].rows = r.rows,
                                  ![c].pc = IF r.rows > 0 THEN "update" ELSE "commit"]
    /\ UNCHANGED env

\* tx.ExecContext(ctx, INSERT INTO ip_views/ip_likes ... DO NOTHING) and
\* res.RowsAffected().  First statement of the deferred transaction: it takes
\* the write lock and works on the store as committed at that moment.
InsertDedup(c) ==
    /\ call[c].pc = "insert"
    /\ wlock = 0
    /\ LET ip == call[c].ip
           slug == call[c].slug
           r == IF call[c].op = "IncrementViews"
                THEN InsertIgnore(ip_views, ip, slug)
                ELSE InsertIgnore(ip_likes, ip, slug)
           w == IF call[c].op = "IncrementViews"
                THEN [Store EXCEPT !.ip_views = r.tbl]
                ELSE [Store EXCEPT !.ip_likes = r.tbl]
       IN /\ wlock' = c
          /\ wtx' = w
          /\ Publish(Isolated(Store, w))
          /\ call' = [call EXCEPT ![c].rows = r.rows,
                                  ![c].pc = IF r.rows > 0 THEN "update" ELSE "commit"]
    /\ UNCHANGED env

\* if rowsAffected > 0 { tx.ExecContext(ctx, INSERT INTO post_stats ...
\* DO UPDATE SET views = views + 1 / likes = likes + 1) }
UpdateCounter(c) ==
    /\ call[c].pc = "update"
    /\ wlock = c
    /\ LET w == [wtx EXCEPT !.post_stats =
                    IF call[c].op = "IncrementViews"
                    THEN UpsertViews(wtx.post_stats, call[c].slug)
                    ELSE UpsertLikes(wtx.post_stats, call[c].slug)]
       IN /\ wtx' = w
          /\ Publish(Isolated(Store, w))
    /\ call' = [call EXCEPT ![c].pc = "commit"]
    /\ UNCHANGED wlock
    /\ UNCHANGED env

\* A commit that never comes back.
CommitBlocks(c) ==
    /\ FALSE
    /\ UNCHANGED vars

\* tx.Commit() succeeds: the working copy becomes the committed store and the
\* write lock is released.
Commit(c) ==
    /\ call[c].pc = "commit"
    /\ wlock = c
    /\ Publish(wtx)
    /\ wlock' = 0
    /\ wtx' = NoTx
    /\ call' = [call EXCEPT ![c].pc = "getstats",
                            ![c].inc = call[c].rows,
                            ![c].cviews = wtx.post_stats[call[c].slug].views,
                            ![c].clikes = wtx.post_stats[call[c].slug].likes]
    /\ UNCHANGED env

\* r.db.QueryRowContext(ctx, INSERT ... RETURNING views, likes) and row.Scan:
\* the body of GetStats, also the last statement of both increments
\* (return r.GetStats(ctx, slug)).  One autocommit statement: it needs the
\* write lock, and it is published when it ends.
GetStats(c) ==
    /\ call[c].pc = "getstats"
    /\ wlock = 0
    /\ LET q == StatsQuery(post_stats, call[c].slug)
       IN /\ post_stats' = q.ps
          /\ call' = [call EXCEPT ![c].pc = "done", ![c].err = q.err,
                                  ![c].views = IF q.err = "" THEN q.views ELSE 0,
                                  ![c].likes = IF q.err = "" THEN q.likes ELSE 0]
    /\ UNCHANGED <<ip_views, ip_likes, wlock, wtx>>
    /\ UNCHANGED env

\* busy_timeout(5000) expires while another connection holds the write lock:
\* the waiting statement returns SQLITE_BUSY and the call returns the error
\* (its deferred tx.Rollback() has nothing to undo).
BusyTimeout(c) ==
    /\ call[c].pc \in {"insert", "getstats"}
    /\ wlock # 0
    /\ ReturnErr(c, "busy")
    /\ UNCHANGED <<post_stats, ip_views, ip_likes, wlock, wtx>>
    /\ UNCHANGED env

\* A failing call without the deferred tx.Rollback(): it returns the error
\* and leaves its transaction open.
FailNoRollback(c) ==
    /\ call[c].pc \in {"insert", "update", "commit", "getstats"}
    /\ ReturnErr(c, "fault")
    /\ UNCHANGED <<post_stats, ip_views, ip_likes, wlock, wtx>>
    /\ UNCHANGED env

\* A storage failure of the current statement, or the caller's context is
\* cancelled: the call returns the error; the deferred tx.Rollback() (or
\* database/sql on cancellation) drops an open transaction and its lock.
Fail(c) ==
    /\ call[c].pc \in {"insert", "update", "commit", "getstats"}
    /\ ReturnErr(c, "fault")
    /\ IF wlock = c
       THEN /\ wlock' = 0
            /\ wtx' = NoTx
       ELSE UNCHANGED <<wlock, wtx>>
    /\ UNCHANGED <<post_stats, ip_views, ip_likes>>
    /\ UNCHANGED env

Next ==
    \E c \in Calls :
        \/ GetStatsCall(c)
        \/ BeginTx(c)
        \/ InsertDedup(c)
        \/ UpdateCounter(c)
        \/ Commit(c)
        \/ GetStats(c)
        \/ BusyTimeout(c)

\* The ledger under concurrency alone: statements fail only by busy timeout.
Spec == Init /\ [][Next]_vars

NextFault ==
    \/ Next
    \/ \E c \in Calls : Fail(c)

\* The ledger with storage failures and cancellations at every statement.
SpecFault == Init /\ [][NextFault]_vars

(***************************************************************************)
(* Vocabulary of the properties.                                           *)
(***************************************************************************)
Started == {c \in Calls : call[c].pc # "idle"}

Done(c) == call[c].pc = "done"

Ok(c) == Done(c) /\ call[c].err = ""

Viewers(slug) == {ip \in Ips : ip_views[<<ip, slug>>] > 0}

Likers(slug) == {ip \in Ips : ip_likes[<<ip, slug>>] > 0}

\* Calls of operation op carrying the pair (ip, slug).
CallsOf(op, ip, slug) ==
    {c \in Started : call[c].op = op /\ call[c].ip = ip /\ call[c].slug = slug}

\* The committed store is the same before and after the step.
StoreSame ==
    /\ post_stats' = post_stats
    /\ ip_views' = ip_views
    /\ ip_likes' = ip_likes

SameViewRun(ip, slug) ==
    /\ Started # {}
    /\ \A c \in Started :
         /\ call[c].op = "IncrementViews"
         /\ call[c].ip = ip
         /\ call[c].slug = slug
         /\ Done(c)

(***************************************************************************)
(* C1.  N >= 1 concurrent IncrementViews calls with the same (identity,    *)
(* slug), in any interleaving: once all of them have finished, views of    *)
(* the slug has gone up by exactly 1 (from the empty store: it is 1) and   *)
(* exactly one ip_views row exists for the pair, and nothing else changed. *)
(***************************************************************************)
C1_SamePairCountedOnce ==
    \A ip \in Ips, slug \in Slugs :
        SameViewRun(ip, slug) =>
            /\ post_stats = [EmptyStats EXCEPT ![slug] = Row(1, 0)]
            /\ ip_views = [EmptyDedup EXCEPT ![<<ip, slug>>] = 1]
            /\ ip_likes = EmptyDedup

\* Every slot ran the same pair, all returned success, and one of them
\* started before the record existed yet inserted nothing: it lost the race.
C1_Witness ==
    \E ip \in Ips, slug \in Slugs :
        /\ SameViewRun(ip, slug)
        /\ Started = Calls
        /\ \A c \in Calls : Ok(c)
        /\ \E c \in Calls : ~call[c].pre /\ call[c].inc = 0

DistinctViewRun(slug) ==
    /\ Started # {}
    /\ \A c \in Started :
         /\ call[c].op = "IncrementViews"
         /\ call[c].slug = slug
         /\ Done(c)
    /\ \A c, d \in Started : c # d => call[c].ip # call[d].ip

(***************************************************************************)
(* C2.  N IncrementViews calls on one slug with N pairwise distinct        *)
(* identities.  As claimed: every call succeeds and views ends at N.       *)
(***************************************************************************)
C2_Original ==
    \A slug \in Slugs :
        DistinctViewRun(slug) =>
            /\ \A c \in Started : call[c].err = ""
            /\ post_stats[slug].views = Cardinality(Started)

(***************************************************************************)
(* C2 as amended.  In such a run a call fails only by giving up the wait   *)
(* for the write lock; every call that returned success was counted; the   *)
(* final views equals the number of calls whose transaction committed (no  *)
(* committed increment is lost), which is N when no call gave up.          *)
(***************************************************************************)
C2_NoLostUpdate ==
    \A slug \in Slugs :
        DistinctViewRun(slug) =>
            /\ \A c \in Started : call[c].err \in {"", "busy"}
            /\ \A c \in Started : call[c].err = "" => call[c].inc = 1
            /\ post_stats[slug].views =
                   Cardinality({c \in Started : call[c].inc = 1})
            /\ Viewers(slug) = {call[c].ip : c \in {d \in Started : call[d].inc = 1}}
            /\ (\A c \in Started : call[c].err = "") =>
                   post_stats[slug].views = Cardinality(Started)

\* Every slot ran a distinct identity on one slug and all succeeded.
C2_Witness ==
    \E slug \in Slugs :
        /\ DistinctViewRun(slug)
        /\ Started = Calls
        /\ \A c \in Calls : Ok(c)
        /\ post_stats[slug].views = MaxCalls

(***************************************************************************)
(* C3.  In every committed state, with failures and cancellations          *)
(* included: for every slug, views = number of distinct identities with an *)
(* ip_views row for it, and likes = number with an ip_likes row.           *)
(***************************************************************************)
C3_CountersMatchDedup ==
    \A slug \in Slugs :
        /\ post_stats[slug].views = Cardinality(Viewers(slug))
        /\ post_stats[slug].likes = Cardinality(Likers(slug))

\* One call failed after its insert and before its commit, another counted.
C3_Witness ==
    \E c, d \in Calls :
        /\ call[c].err = "fault" /\ call[c].rows = 1 /\ call[c].inc = 0
        /\ Ok(d) /\ call[d].inc = 1
        /\ post_stats[call[d].slug].views + post_stats[call[d].slug].likes = 1

(***************************************************************************)
(* C4.  As claimed: when IncrementViews or IncrementLikes returns an       *)
(* error, that call has changed nothing in the store.                      *)
(***************************************************************************)
C4_FailedCallHasNoEffect ==
    \A c \in Calls :
        (call[c].op \in IncOps /\ Done(c) /\ call[c].err # "") => call[c].inc = 0

LazyRowStep ==
    \E s \in Slugs :
        /\ ~post_stats[s].present
        /\ post_stats' = [post_stats EXCEPT ![s] = Row(0, 0)]
        /\ ip_views' = ip_views
        /\ ip_likes' = ip_likes

CountedViewStep ==
    \E ip \in Ips, s \in Slugs :
        /\ ip_views[<<ip, s>>] = 0
        /\ ip_views' = [ip_views EXCEPT ![<<ip, s>>] = 1]
        /\ post_stats' = [post_stats EXCEPT
                            ![s] = Row(post_stats[s].views + 1, post_stats[s].likes)]
        /\ ip_likes' = ip_likes

CountedLikeStep ==
    \E ip \in Ips, s \in Slugs :
        /\ ip_likes[<<ip, s>>] = 0
        /\ ip_likes' = [ip_likes EXCEPT ![<<ip, s>>] = 1]
        /\ post_stats' = [post_stats EXCEPT
                            ![s] = Row(post_stats[s].views, post_stats[s].likes + 1)]
        /\ ip_views' = ip_views

InTx(c) == call[c].pc \in {"insert", "update", "commit"}

(***************************************************************************)
(* C5.  The dedup insert and the counter increment of one call are one     *)
(* atomic unit.  Every step changes the committed store in one of four     *)
(* ways only: not at all; by the lazy creation of one zeroed row; by one   *)
(* new ip_views row together with +1 on that slug's views; by one new      *)
(* ip_likes row together with +1 on that slug's likes.  A call that ends   *)
(* inside its transaction (failure or cancellation before the commit)      *)
(* leaves the store unchanged, and so does every statement before the      *)
(* commit.                                                                 *)
(***************************************************************************)
C5_AtomicUnit ==
    [][/\ StoreSame \/ LazyRowStep \/ CountedViewStep \/ CountedLikeStep
       /\ \A c \in Calls :
            (InTx(c) /\ call'[c] # call[c] /\ call'[c].pc # "getstats") =>
                StoreSame]_vars

\* A call failed after its insert (rows = 1) and before its commit, and
\* neither its dedup record nor any count for its slug is in the store.
C5_Witness ==
    \E c \in Calls :
        /\ call[c].op = "IncrementViews"
        /\ call[c].err = "fault" /\ call[c].rows = 1 /\ call[c].inc = 0
        /\ ip_views[<<call[c].ip, call[c].slug>>] = 0
        /\ post_stats[call[c].slug].views = 0

Increments(cs) == Cardinality({c \in cs : call[c].inc = 1})

RetriedToSuccess(cs) ==
    /\ \E c \in cs : Done(c) /\ call[c].err # ""
    /\ \E c \in cs : Ok(c)

(***************************************************************************)
(* C6.  Retry after an error.  For a pair not counted before the first     *)
(* attempt: as soon as one attempt has returned an error and one has       *)
(* returned success, the attempts together have raised the counter by      *)
(* exactly 1 and the pair has exactly one dedup record.  Holds for views    *)
(* and for likes.                                                          *)
(***************************************************************************)
C6_RetryCountsOnce ==
    \A ip \in Ips, slug \in Slugs :
        /\ RetriedToSuccess(CallsOf("IncrementViews", ip, slug)) =>
              /\ Increments(CallsOf("IncrementViews", ip, slug)) = 1
              /\ ip_views[<<ip, slug>>] = 1
        /\ RetriedToSuccess(CallsOf("IncrementLikes", ip, slug)) =>
              /\ Increments(CallsOf("IncrementLikes", ip, slug)) = 1
              /\ ip_likes[<<ip, slug>>] = 1

\* The first attempt committed and then returned an error; the retry, started
\* when the record was already there, returned success.
C6_Witness ==
    \E c, d \in Calls :
        /\ call[c].op = "IncrementViews" /\ call[d].op = "IncrementViews"
        /\ call[c].ip = call[d].ip /\ call[c].slug = call[d].slug
        /\ call[c].err = "fault" /\ call[c].inc = 1
        /\ call[d].pre /\ Ok(d) /\ call[d].views = 1

OnlyLiker(ip, slug) ==
    \A c \in Started :
        (call[c].op = "IncrementLikes" /\ call[c].slug = slug) => call[c].ip = ip

Counted(c) == call[c].op = "IncrementViews" /\ Ok(c) /\ call[c].inc = 1

(***************************************************************************)
(* C9.  As claimed: a successful IncrementViews call that inserted a new   *)
(* dedup record returns exactly the views and likes the row held at the    *)
(* commit of its own transaction, in every interleaving.                   *)
(***************************************************************************)
C9_Original ==
    \A c \in Calls :
        Counted(c) =>
            /\ call[c].views = call[c].cviews
            /\ call[c].likes = call[c].clikes

AloneOnSlug(c) ==
    \A d \in Calls : (d # c /\ call[d].slug = call[c].slug) => call[d].inc = 0

(***************************************************************************)
(* C9 as amended.  Such a call returns stats read by a separate statement  *)
(* after its commit: views and likes are never below the values the row    *)
(* held at that commit (its own increment is included), and they equal     *)
(* those values when no other call commits an increment on the same slug.  *)
(***************************************************************************)
C9_ReturnsPostCommitRead ==
    \A c \in Calls :
        Counted(c) =>
            /\ call[c].cviews >= 1
            /\ call[c].views >= call[c].cviews
            /\ call[c].likes >= call[c].clikes
            /\ AloneOnSlug(c) =>
                  /\ call[c].views = call[c].cviews
                  /\ call[c].likes = call[c].clikes

\* Another identity's view committed between the call's commit and its read:
\* the call returned more views than its commit left.
C9_Witness ==
    \E c \in Calls : Counted(c) /\ call[c].views > call[c].cviews

(***************************************************************************)
(* C10.  GetStats on a slug without a row does not fail for that reason    *)
(* (an error is a lock-wait timeout only): it returns views 0 and likes 0  *)
(* and its only effect is the creation of the zeroed row of that slug.     *)
(* GetStats on a slug with a row returns the stored views and likes and    *)
(* changes nothing.  No GetStats step touches a dedup table or another     *)
(* slug's row.                                                             *)
(***************************************************************************)
C10_GetStatsLazyRow ==
    [][\A c \in Calls :
         (call[c].op = "GetStats" /\ call[c].pc = "getstats" /\ call'[c].pc = "done") =>
             /\ call'[c].err \in {"", "busy"}
             /\ ip_views' = ip_views
             /\ ip_likes' = ip_likes
             /\ \A t \in Slugs \ {call[c].slug} : post_stats'[t] = post_stats[t]
             /\ call'[c].err = "busy" => StoreSame
             /\ call'[c].err = "" =>
                  IF post_stats[call[c].slug].present
                  THEN /\ StoreSame
                       /\ call'[c].views = post_stats[call[c].slug].views
                       /\ call'[c].likes = post_stats[call[c].slug].likes
                  ELSE /\ post_stats'[call[c].slug] = Row(0, 0)
                       /\ call'[c].views = 0
                       /\ call'[c].likes = 0]_vars

\* Two GetStats calls on one never-viewed slug: the row is the zeroed row the
\* first one created, the second found it, and both returned zeros.
C10_Witness ==
    \E c, d \in Calls :
        /\ c # d
        /\ call[c].op = "GetStats" /\ Ok(c) /\ call[c].views = 0 /\ call[c].likes = 0
        /\ call[d].op = "GetStats" /\ Ok(d) /\ call[d].slug = call[c].slug
        /\ post_stats[call[c].slug] = Row(0, 0)
        /\ Viewers(call[c].slug) = {} /\ Likers(call[c].slug) = {}

\* Steps taken by call c of operation op (the slot's record changes).
StepOf(c, op) == call[c].op = op /\ call'[c] # call[c]

(***************************************************************************)
(* C11.  Views and likes are independent.  No step of an IncrementLikes    *)
(* call, counting or no-op, failing or not, changes the views value of any *)
(* slug or a view dedup record; no step of an IncrementViews call changes  *)
(* the likes value of any slug or a like dedup record.  The commit of a    *)
(* first like on a slug with views 0 leaves the row at views 0, likes 1,   *)
(* and the call returns the views and likes the row holds when it reads.   *)
(***************************************************************************)
C11_CountersIndependent ==
    [][\A c \in Calls :
         /\ StepOf(c, "IncrementLikes") =>
              /\ \A s \in Slugs : post_stats'[s].views = post_stats[s].views
              /\ ip_views' = ip_views
         /\ StepOf(c, "IncrementViews") =>
              /\ \A s \in Slugs : post_stats'[s].likes = post_stats[s].likes
              /\ ip_likes' = ip_likes
         /\ (/\ StepOf(c, "IncrementLikes")
             /\ call[c].pc = "commit" /\ call'[c].pc = "getstats"
             /\ call[c].rows = 1
             /\ post_stats[call[c].slug].views = 0
             /\ post_stats[call[c].slug].likes = 0) =>
                post_stats'[call[c].slug] = Row(0, 1)
         /\ (/\ StepOf(c, "IncrementLikes")
             /\ call'[c].pc = "done" /\ call'[c].err = "") =>
                /\ call'[c].views = post_stats'[call[c].slug].views
                /\ call'[c].likes = post_stats'[call[c].slug].likes]_vars

\* A first like on a never-viewed slug returned likes 1 and views 0, the row
\* is (0, 1), and a second like with the same pair was a no-op.
C11_Witness ==
    \E c, d \in Calls :
        /\ call[c].op = "IncrementLikes" /\ call[d].op = "IncrementLikes"
        /\ call[c].ip = call[d].ip /\ call[c].slug = call[d].slug
        /\ Ok(c) /\ call[c].inc = 1 /\ call[c].likes = 1 /\ call[c].views = 0
        /\ Ok(d) /\ call[d].pre /\ call[d].inc = 0
        /\ post_stats[call[c].slug] = Row(0, 1)

(***************************************************************************)
(* C12.  From one committed state to the next, failures and cancellations  *)
(* included: views and likes of every slug never decrease, a post_stats    *)
(* row that exists stays, and a committed dedup record is never removed or *)
(* changed (its pair keeps exactly the rows it has).                       *)
(***************************************************************************)
C12_MonotoneStore ==
    [][/\ \A s \in Slugs :
            /\ post_stats'[s].views >= post_stats[s].views
            /\ post_stats'[s].likes >= post_stats[s].likes
            /\ post_stats[s].present => post_stats'[s].present
       /\ \A k \in Keys :
            /\ ip_views[k] > 0 => ip_views'[k] = ip_views[k]
            /\ ip_likes[k] > 0 => ip_likes'[k] = ip_likes[k]]_vars

\* After one call's increment was committed, a later call on the same slug
\* failed; the record and the count of the first are still there.
C12_Witness ==
    \E c, d \in Calls :
        /\ c # d
        /\ call[c].op = "IncrementViews" /\ call[c].inc = 1
        /\ call[d].slug = call[c].slug /\ call[d].err = "fault"
        /\ call[d].op \in IncOps /\ call[d].rows = 1
        /\ ip_views[<<call[c].ip, call[c].slug>>] = 1
        /\ post_stats[call[c].slug] = Row(1, 0)

(***************************************************************************)
(* The HTTP handlers (internal/handler): HandleGetStats, HandleView and    *)
(* HandleLike, one request at a time.  http is the exchange handled last:  *)
(* the request (handler, slug path value, headers), the identity the       *)
(* handler derived, the repo operation it invoked (op, "none" when it      *)
(* invoked none) and the response (status, msg or views and likes).        *)
(***************************************************************************)

\* Number of requests served in one run.
MaxReqs == 2

\* isValidSlug: len(slug) < 100.
SlugLimit == 100

\* ^[a-z0-9-]+$
SlugChars ==
    {"a", "b", "c", "d", "e", "f", "g", "h", "i", "j", "k", "l", "m",
     "n", "o", "p", "q", "r", "s", "t", "u", "v", "w", "x", "y", "z",
     "0", "1", "2", "3", "4", "5", "6", "7", "8", "9", "-"}

\* The slug made of n times the character ch.
Rep(ch, n) == [i \in 1..n |-> ch]

\* isValidSlug with the bound len(slug) <= 100.
SlugUpTo(slug) ==
    /\ Len(slug) > 0
    /\ Len(slug) <= SlugLimit
    /\ \A i \in 1..Len(slug) : slug[i] \in SlugChars

isValidSlug(slug) ==
    /\ Len(slug) > 0
    /\ Len(slug) < SlugLimit
    /\ \A i \in 1..Len(slug) : slug[i] \in SlugChars

\* Path values of the requests: a valid slug, the empty one, one of 100
\* characters and one with an upper-case letter.
ReqSlugs == {<<"a", "-", "1">>, <<>>, Rep("a", SlugLimit), <<"a", "B">>}

Headers(xff, xrip, remote) == [xff |-> xff, xrip |-> xrip, remote |-> remote]

\* Remote addresses of the served requests: every IPv4 address, the IPv6
\* addresses of the first prefix and one of the last prefix, the IPv4-mapped
\* addresses, and one that is no address.
Origins ==
    {Dotted(n) : n \in Hosts}
        \cup {Hex(IPv6(1, n), TRUE) : n \in Hosts}
        \cup {Hex(IPv6(NumPrefixes, 1), TRUE)}
        \cup {Hex(IPv4(n), FALSE) : n \in Hosts}
        \cup {Garbage}

\* Headers of the served requests: direct connections from every origin, and
\* connections from a proxy that forwards an IPv4 address or garbage.
HttpHeaders ==
    {Headers(<<>>, EmptyString, WithPort(h)) : h \in Origins}
        \cup {Headers(<<Bare(h)>>, EmptyString, WithPort(Dotted(NumHosts))) :
                h \in {Dotted(1), Garbage}}

\* Every identity NormalizeIP can return, the empty one included.
Identities == {NormalizeIP(a) : a \in AddrStrings} \cup {EmptyString}

HttpKeys == Identities \X ReqSlugs

\* Outcomes of a repo call run alone: no failure, a failure inside the
\* transaction, a failure of the read that follows the commit.
Faults == {"none", "tx", "read"}

Result(store, err, views, likes) ==
    [store |-> store, err |-> err, views |-> views, likes |-> likes]

\* r.GetStats(ctx, slug) with no other call in flight.
RunGetStats(store, slug, fault) ==
    LET q == StatsQuery(store.post_stats, slug)
    IN IF fault # "none"
       THEN Result(store, "fault", 0, 0)
       ELSE Result([store EXCEPT !.post_stats = q.ps], q.err,
                   IF q.err = "" THEN q.views ELSE 0,
                   IF q.err = "" THEN q.likes ELSE 0)

\* r.IncrementViews / r.IncrementLikes(ctx, ip, slug) with no other call in
\* flight: the dedup insert, the counter upsert when a row was inserted, the
\* commit, then GetStats.
RunIncrement(op, store, ip, slug, fault) ==
    LET r == IF op = "IncrementViews"
             THEN InsertIgnore(store.ip_views, ip, slug)
             ELSE InsertIgnore(store.ip_likes, ip, slug)
        ps == IF r.rows = 0 THEN store.post_stats
              ELSE IF op = "IncrementViews"
                   THEN UpsertViews(store.post_stats, slug)
                   ELSE UpsertLikes(store.post_stats, slug)
        tx == IF op = "IncrementViews"
              THEN [store EXCEPT !.ip_views = r.tbl, !.post_stats = ps]
              ELSE [store EXCEPT !.ip_likes = r.tbl, !.post_stats = ps]
    IN IF fault = "tx"
       THEN Result(store, "fault", 0, 0)
       ELSE RunGetStats(tx, slug, IF fault = "read" THEN "read" ELSE "none")

\* The request of handler h as it arrives: nothing derived, no response yet.
Arrived(h, slug, hd) ==
    [NoExchange EXCEPT !.n = http.n + 1, !.handler = h, !.slug = slug,
                       !.xff = hd.xff, !.xrip = hd.xrip, !.remote = hd.remote]

\* HttpErrorResponse(w, message, statusCode) and return.
HttpErrorResponse(x, message, statusCode) ==
    /\ http' = [x EXCEPT !.status = statusCode, !.msg = message]
    /\ UNCHANGED <<post_stats, ip_views, ip_likes>>

\* The handler's use of the result of the repo call res.
Respond(x, op, res) ==
    /\ Publish(res.store)
    /\ http' = IF res.err = ""
               THEN [x EXCEPT !.op = op, !.status = 200,
                              !.views = res.views, !.likes = res.likes]
               ELSE IF res.err = "norows" /\ op = "GetStats"
               THEN [x EXCEPT !.op = op, !.status = 200]
               ELSE [x EXCEPT !.op = op, !.status = 500,
                              !.msg = "internal server error"]

HandleGetStats ==
    /\ http.n < MaxReqs
    /\ \E slug \in ReqSlugs, hd \in HttpHeaders :
         LET x == Arrived("HandleGetStats", slug, hd)
         IN IF ~isValidSlug(slug)
            THEN HttpErrorResponse(x, "invalid slug format", 400)
            ELSE \E fault \in Faults \ {"tx"} :
                    Respond(x, "GetStats", RunGetStats(Store, slug, fault))
    /\ UNCHANGED <<wlock, wtx, call>>
    /\ UNCHANGED bvars

\* The body of HandleView and HandleLike without the test ip == "".
IncrementAnyIP(h, op) ==
    \E slug \in ReqSlugs, hd \in HttpHeaders :
        LET x == Arrived(h, slug, hd)
            ip == GetClientIP(x)
        IN IF ~isValidSlug(slug)
           THEN HttpErrorResponse(x, "invalid slug format", 400)
           ELSE \E fault \in Faults :
                   Respond([x EXCEPT !.ip = ip], op,
                           RunIncrement(op, Store, ip, slug, fault))

\* The common body of HandleView and HandleLike for the request x.
ServeIncrement(x, op) ==
    LET ip == GetClientIP(x)
    IN IF ~isValidSlug(x.slug)
       THEN HttpErrorResponse(x, "invalid slug format", 400)
       ELSE IF ip = EmptyString
       THEN HttpErrorResponse(x, "invalid request ip", 400)
       ELSE \E fault \in Faults :
               Respond([x EXCEPT !.ip = ip], op,
                       RunIncrement(op, Store, ip, x.slug, fault))

\* HandleView and HandleLike for the requests that are served.
HandleIncrement(h, op) ==
    \E slug \in ReqSlugs, hd \in HttpHeaders :
        ServeIncrement(Arrived(h, slug, hd), op)

HandleView ==
    /\ http.n < MaxReqs
    /\ HandleIncrement("HandleView", "IncrementViews")
    /\ UNCHANGED <<wlock, wtx, call>>
    /\ UNCHANGED bvars

HandleLike ==
    /\ http.n < MaxReqs
    /\ HandleIncrement("HandleLike", "IncrementLikes")
    /\ UNCHANGED <<wlock, wtx, call>>
    /\ UNCHANGED bvars

InitHttp ==
    /\ post_stats = [s \in ReqSlugs |-> NoRow]
    /\ ip_views = [k \in HttpKeys |-> 0]
    /\ ip_likes = [k \in HttpKeys |-> 0]
    /\ wlock = 0
    /\ wtx = NoTx
    /\ call = [c \in Calls |-> IdleCall]
    /\ http = NoExchange
    /\ NoBackup

NextHttp == HandleGetStats \/ HandleView \/ HandleLike

\* The handlers over the store, requests served one after another.
SpecHttp == InitHttp /\ [][NextHttp]_vars

(***************************************************************************)
(* Vocabulary of the handler properties.                                   *)
(***************************************************************************)

\* The step serves a request.
Served == http'.n = http.n + 1

\* The header value the identity of exchange x is taken from.
Origin(x) ==
    IF x.xff # <<>> THEN x.xff[1]
    ELSE IF x.xrip # EmptyString THEN x.xrip
    ELSE x.remote

\* The address string is no network address, with or without a port.
NotAnAddress(a) ==
    \/ a.host.form \notin {"v4", "v6"}
    \/ a.brackets /\ ~a.port

\* Exchange x is a view that the repo was asked to count.
IsView(x) == x.handler = "HandleView" /\ x.op = "IncrementViews"

BadSlug(slug) ==
    \/ Len(slug) = 0
    \/ Len(slug) >= 100
    \/ \E i \in 1..Len(slug) : slug[i] \notin SlugChars

(***************************************************************************)
(* C13.  A stats, view or like request whose slug is empty, has 100        *)
(* characters or more, or has a character that is no lower-case letter,    *)
(* digit or hyphen gets the response 400 "invalid slug format"; the        *)
(* handler invokes no repo operation and the store is left as it was.      *)
(***************************************************************************)
C13_BadSlugRejected ==
    [][(Served /\ BadSlug(http'.slug)) =>
          /\ http'.handler \in {"HandleGetStats", "HandleView", "HandleLike"}
          /\ http'.status = 400
          /\ http'.msg = "invalid slug format"
          /\ http'.op = "none"
          /\ StoreSame]_vars

\* A like with a slug of exactly 100 characters was rejected after an earlier
\* request had been counted; the count is still in the store.
C13_Witness ==
    /\ http.n = 2
    /\ http.handler = "HandleLike"
    /\ http.slug = Rep("a", 100)
    /\ http.status = 400
    /\ http.op = "none"
    /\ post_stats[<<"a", "-", "1">>].views = 1

(***************************************************************************)
(* C14.  A view or like request whose origin is no network address: the    *)
(* derived identity is the empty string, the response is 400 (with the     *)
(* message "invalid request ip" when the slug is valid), no repo operation *)
(* is invoked and the store is left as it was.  No dedup record with the   *)
(* empty identity exists after any step.                                   *)
(***************************************************************************)
C14_BadOriginRejected ==
    [][/\ (/\ Served
           /\ http'.handler \in {"HandleView", "HandleLike"}
           /\ NotAnAddress(Origin(http'))) =>
              /\ http'.ip = EmptyString
              /\ http'.status = 400
              /\ ~BadSlug(http'.slug) => http'.msg = "invalid request ip"
              /\ http'.op = "none"
              /\ StoreSame
       /\ \A slug \in ReqSlugs :
            /\ ip_views'[<<EmptyString, slug>>] = 0
            /\ ip_likes'[<<EmptyString, slug>>] = 0]_vars

\* A view with a valid slug whose forwarding header holds garbage was
\* rejected, after an earlier request had been counted.
C14_Witness ==
    /\ http.n = 2
    /\ http.handler = "HandleView"
    /\ http.slug = <<"a", "-", "1">>
    /\ http.xff = <<Bare(Garbage)>>
    /\ http.status = 400
    /\ http.msg = "invalid request ip"
    /\ post_stats[<<"a", "-", "1">>].views + post_stats[<<"a", "-", "1">>].likes = 1

\* A successful view followed by a view on the same slug, both from colon-hex
\* (16-byte) addresses with the same leading 64 bits.
SamePrefixViews ==
    /\ Served
    /\ IsView(http) /\ http.status = 200
    /\ IsView(http') /\ http'.slug = http.slug
    /\ Origin(http).host.form = "v6" /\ Origin(http').host.form = "v6"
    /\ Origin(http).host.ip[1] = Origin(http').host.ip[1]

\* The second view was a no-op.
SecondViewNoOp ==
    /\ http'.ip = http.ip
    /\ StoreSame
    /\ http'.status = 200 => http'.views = http.views

(***************************************************************************)
(* C15.  As claimed: any two 16-byte addresses with the same leading 64    *)
(* bits have the same identity, so a view from the second after a view     *)
(* from the first on the same slug is a no-op.                             *)
(***************************************************************************)
C15_Original == [][SamePrefixViews => SecondViewNoOp]_vars

(***************************************************************************)
(* C15 as amended.  Two 16-byte addresses with the same leading 64 bits    *)
(* that are not IPv4-mapped have the same identity, the canonical text of  *)
(* the prefix with the trailing 64 bits zero, and the second view is a     *)
(* no-op.  An IPv4-mapped address (::ffff:a.b.c.d) has a 4-byte form: its  *)
(* identity is the dotted quad, unmasked.                                  *)
(***************************************************************************)
C15_SamePrefixOneIdentity ==
    [][SamePrefixViews =>
          /\ (To4(Origin(http).host.ip) = NilIP /\ To4(Origin(http').host.ip) = NilIP) =>
                /\ SecondViewNoOp
                /\ http'.ip = Bare(Hex(IPv6(Origin(http').host.ip[1], 0), TRUE))
          /\ To4(Origin(http').host.ip) # NilIP =>
                http'.ip = Bare(Dotted(Origin(http').host.ip[3]))]_vars

\* The second view, from host 2 of prefix 1, carries the identity of the
\* prefix, whose record exists, and views is 1.
C15_Witness ==
    /\ http.n = 2
    /\ IsView(http) /\ http.status = 200
    /\ http.remote = WithPort(Hex(IPv6(1, 2), TRUE))
    /\ http.ip = Bare(Hex(IPv6(1, 0), TRUE))
    /\ ip_views[<<http.ip, http.slug>>] = 1
    /\ http.views = 1
    /\ post_stats[http.slug].views = 1

(***************************************************************************)
(* C16.  A view or like from a 4-byte address, given with or without a     *)
(* port suffix, has that address (its dotted quad, without the port) as    *)
(* identity.  A successful view followed by a successful view on the same  *)
(* slug from a different 4-byte address: the identities differ, each has   *)
(* its own dedup record, and views counts both.                            *)
(***************************************************************************)
C16_IPv4Verbatim ==
    [][/\ (/\ Served
           /\ http'.op \in IncOps
           /\ Origin(http').host.form = "v4") =>
              /\ http'.ip = Bare(Origin(http').host)
              /\ http'.ip.host = Dotted(Origin(http').host.ip[3])
       /\ (/\ Served
           /\ IsView(http) /\ http.status = 200
           /\ IsView(http') /\ http'.status = 200 /\ http'.slug = http.slug
           /\ Origin(http).host.form = "v4" /\ Origin(http').host.form = "v4"
           /\ Origin(http).host # Origin(http').host) =>
              /\ http'.ip # http.ip
              /\ ip_views'[<<http.ip, http.slug>>] = 1
              /\ ip_views'[<<http'.ip, http.slug>>] = 1
              /\ post_stats'[http.slug].views >= 2
              /\ http'.views = post_stats'[http.slug].views]_vars

\* The second view came through a proxy as 0.0.0.1 without a port, the first
\* directly from another 4-byte address with a port; both are counted.
C16_Witness ==
    /\ http.n = 2
    /\ IsView(http) /\ http.status = 200
    /\ http.xff = <<Bare(Dotted(1))>>
    /\ http.ip = Bare(Dotted(1))
    /\ http.views = 2
    /\ ip_views[<<Bare(Dotted(1)), http.slug>>] = 1
    /\ ip_views[<<Bare(Dotted(2)), http.slug>>] = 1

(***************************************************************************)
(* GetClientIP on its own: the identity of one request, for every          *)
(* combination of the X-Forwarded-For header, the X-Real-IP header and     *)
(* RemoteAddr.                                                             *)
(***************************************************************************)

\* X-Forwarded-For: not set, one entry, or an entry followed by a proxy's.
XffValues ==
    {<<>>} \cup {<<a>> : a \in AddrStrings}
           \cup {<<a, Bare(Dotted(1))>> : a \in AddrStrings \cup {EmptyString}}

\* X-Real-IP: not set, or a host text.
XRealValues == {EmptyString} \cup {Bare(h) : h \in HostTexts}

\* RemoteAddr: host:port.
RemoteValues == {WithPort(h) : h \in HostTexts}

InitIdentity ==
    /\ post_stats = EmptyStats
    /\ ip_views = EmptyDedup
    /\ ip_likes = EmptyDedup
    /\ wlock = 0
    /\ wtx = NoTx
    /\ call = [c \in Calls |-> IdleCall]
    /\ NoBackup
    /\ \E xff \in XffValues, xrip \in XRealValues, remote \in RemoteValues :
         http = [NoExchange EXCEPT !.xff = xff, !.xrip = xrip, !.remote = remote]

\* ip := GetClientIP(r)
ClientIP ==
    /\ http.n = 0
    /\ http' = [http EXCEPT !.n = 1, !.ip = GetClientIP(http)]
    /\ UNCHANGED <<post_stats, ip_views, ip_likes, wlock, wtx, call>>
    /\ UNCHANGED bvars

NextIdentity == ClientIP

SpecIdentity == InitIdentity /\ [][NextIdentity]_vars

(***************************************************************************)
(* C17.  As claimed: the identity is derived from the first entry of the   *)
(* forwarding list when that header is present, and otherwise from the     *)
(* direct-connection address.                                              *)
(***************************************************************************)
C17_Original ==
    http.n = 1 =>
        http.ip = IF http.xff # <<>>
                  THEN NormalizeIP(http.xff[1])
                  ELSE NormalizeIP(http.remote)

(***************************************************************************)
(* C17 as amended.  Three sources in order: the first entry of the         *)
(* X-Forwarded-For list when that header is not empty; otherwise the       *)
(* X-Real-IP header when it is not empty; otherwise RemoteAddr.  The       *)
(* identity is the normalization of that one source and of no other: when  *)
(* it is no address the identity is empty, whatever the other two hold.    *)
(***************************************************************************)
C17_ThreeSources ==
    http.n = 1 =>
        /\ http.xff # <<>> => http.ip = NormalizeIP(http.xff[1])
        /\ (http.xff = <<>> /\ http.xrip # EmptyString) =>
               http.ip = NormalizeIP(http.xrip)
        /\ (http.xff = <<>> /\ http.xrip = EmptyString) =>
               http.ip = NormalizeIP(http.remote)
        /\ NotAnAddress(Origin(http)) => http.ip = EmptyString

\* No forwarding list, X-Real-IP 0.0.0.1, RemoteAddr 0.0.0.2 with a port: the
\* identity is 0.0.0.1.
C17_Witness ==
    /\ http.n = 1
    /\ http.xff = <<>>
    /\ http.xrip = Bare(Dotted(1))
    /\ http.remote = WithPort(Dotted(2))
    /\ http.ip = Bare(Dotted(1))

(***************************************************************************)
(* The backup worker (internal/tasks.BackupService over                    *)
(* internal/backup.SpaceClient) as main starts and stops it.               *)
(*                                                                         *)
(* backup.state is the position of the worker's goroutine: Idle = blocked  *)
(* in the select, Uploading = inside performBackup (step open: at          *)
(* os.Open; steps head, tail: inside UploadFile while PutObject reads the  *)
(* file), Stopped = returned, None = no worker was started.  backup.tick   *)
(* is the content of ticker.C, a channel of capacity 1.  fired, cycles,    *)
(* calls, ccalls (upload calls of the current cycle), opened, failures and *)
(* log are history.  The storage file has two parts, read one after the    *)
(* other; dbfile is the version both parts hold, raised by every write.    *)
(***************************************************************************)

\* Number of times the ticker fires in one run.
MaxTicks == 2

\* Number of writes to the storage file in one run.
MaxWrites == 2

\* filename := "backups/blog.db"
filename == "backups/blog.db"

\* The content of the storage file at version v: both parts.
FileContent(v) == <<v, v>>

\* A client constructor that does not look at ENV.
ClientAnyEnv(environ) == environ.sdk

\* backup.NewSpaceClient() returns a client and no error.
NewSpaceClient(environ) ==
    IF environ.ENV # "prod" THEN FALSE ELSE environ.sdk

\* A bucket with versioning: an upload adds an object and keeps the others.
KeepVersions(bkt, obj) == bkt \cup {obj}

\* s.Client.PutObject succeeds: the object replaces the one with its key.
PutObject(bkt, obj) == {o \in bkt : o.key # obj.key} \cup {obj}

\* A loop that returns when performBackup returned an error.
ExitOnError(err) == IF err THEN "Stopped" ELSE "Idle"

\* Where the goroutine goes after performBackup returned: both branches of
\* "if err := b.performBackup(ctx); err != nil" log and fall back into the loop.
LoopAfter(err) == "Idle"

\* A select whose first case is always ready.
AlwaysReady == TRUE

\* A select that never finds its first case ready.
NeverReady == FALSE

\* case <-ctx.Done() is ready.
DoneReady == proc.cancelled

\* The process has not ended.
Alive == proc.main # "exited"

\* A start whose ticker has a tick ready at once.
RunningAtOnce == [NoWorker EXCEPT !.state = "Idle", !.tick = 1]

\* backupWorker.Start(backupCtx) has run: ticker created, goroutine in select.
Running == [NoWorker EXCEPT !.state = "Idle"]

\* performBackup returned err.
EndCycle(b, err) ==
    [b EXCEPT !.state = LoopAfter(err), !.step = "",
              !.failures = IF err THEN @ + 1 ELSE @,
              !.log = IF err THEN "Backup failed" ELSE "Backup successful"]

InitBackup ==
    /\ post_stats = EmptyStats
    /\ ip_views = EmptyDedup
    /\ ip_likes = EmptyDedup
    /\ wlock = 0
    /\ wtx = NoTx
    /\ call = [c \in Calls |-> IdleCall]
    /\ http = NoExchange
    /\ bucket = {}
    /\ dbfile = 0
    /\ \E e \in {"prod", "dev", ""}, creds \in BOOLEAN, sdk \in BOOLEAN :
         /\ proc = Serving(Environ(e, creds, sdk))
         /\ backup = IF NewSpaceClient(Environ(e, creds, sdk))
                     THEN Running
                     ELSE NoWorker

Ledger == <<post_stats, ip_views, ip_likes, wlock, wtx, call, http>>

\* A ticker whose channel queues every tick.
TimerQueues ==
    /\ Alive
    /\ backup.state \in {"Idle", "Uploading"}
    /\ backup.fired < MaxTicks
    /\ backup' = [backup EXCEPT !.fired = @ + 1, !.tick = @ + 1]
    /\ UNCHANGED <<bucket, dbfile, proc>>
    /\ UNCHANGED Ledger

\* The ticker fires: a tick is put into ticker.C, or dropped when one is
\* already there.
TimerFires ==
    /\ Alive
    /\ backup.state \in {"Idle", "Uploading"}
    /\ backup.fired < MaxTicks
    /\ backup' = [backup EXCEPT !.fired = @ + 1, !.tick = 1]
    /\ UNCHANGED <<bucket, dbfile, proc>>
    /\ UNCHANGED Ledger

\* case <-ticker.C: the call of b.performBackup(ctx).
ReceiveTick ==
    /\ Alive
    /\ backup.state = "Idle"
    /\ backup.tick = 1
    /\ backup' = [backup EXCEPT !.state = "Uploading", !.step = "open",
                                !.tick = 0, !.cycles = @ + 1, !.ccalls = 0,
                                !.opened = FALSE, !.key = <<>>, !.body = <<>>]
    /\ UNCHANGED <<bucket, dbfile, proc>>
    /\ UNCHANGED Ledger

\* os.Open(b.dbPath) returns an error: performBackup returns it.
OpenFails ==
    /\ Alive
    /\ backup.step = "open"
    /\ backup' = EndCycle(backup, TRUE)
    /\ UNCHANGED <<bucket, dbfile, proc>>
    /\ UNCHANGED Ledger

\* An open that takes the store's write lock for the backup.
OpenLocked ==
    /\ Alive
    /\ backup.step = "open"
    /\ wlock = 0
    /\ wlock' = MaxCalls + 1
    /\ backup' = [backup EXCEPT !.step = "head", !.opened = TRUE,
                                !.calls = @ + 1, !.ccalls = @ + 1,
                                !.key = <<filename>>]
    /\ UNCHANGED <<bucket, dbfile, proc>>
    /\ UNCHANGED <<post_stats, ip_views, ip_likes, wtx, call, http>>

\* os.Open(b.dbPath) succeeds and b.spaceClient.UploadFile(ctx, filename, f)
\* is called.
OpenFile ==
    /\ Alive
    /\ backup.step = "open"
    /\ backup' = [backup EXCEPT !.step = "head", !.opened = TRUE,
                                !.calls = @ + 1, !.ccalls = @ + 1,
                                !.key = <<filename>>]
    /\ UNCHANGED <<bucket, dbfile, proc>>
    /\ UNCHANGED Ledger

\* PutObject reads the first part of the file.
ReadHead ==
    /\ Alive
    /\ backup.step = "head"
    /\ backup' = [backup EXCEPT !.step = "tail", !.body = <<dbfile>>]
    /\ UNCHANGED <<bucket, dbfile, proc>>
    /\ UNCHANGED Ledger

\* PutObject reads the rest of the file and succeeds: UploadFile returns nil.
UploadDone ==
    /\ Alive
    /\ backup.step = "tail"
    /\ ~proc.cancelled
    /\ LET body == Append(backup.body, dbfile)
       IN /\ bucket' = PutObject(bucket, [key |-> backup.key[1], body |-> body,
                                          acl |-> "private"])
          /\ backup' = [EndCycle(backup, FALSE) EXCEPT !.body = body]
    /\ UNCHANGED <<dbfile, proc>>
    /\ UNCHANGED Ledger

\* PutObject returns an error (the service, the network, or ctx cancelled):
\* UploadFile wraps it and performBackup returns it.
UploadFails ==
    /\ Alive
    /\ backup.step \in {"head", "tail"}
    /\ backup' = EndCycle(backup, TRUE)
    /\ UNCHANGED <<bucket, dbfile, proc>>
    /\ UNCHANGED Ledger

\* case <-ctx.Done(): ticker.Stop() and return.
StopBackup ==
    /\ Alive
    /\ backup.state = "Idle"
    /\ DoneReady
    /\ backup' = [backup EXCEPT !.state = "Stopped"]
    /\ UNCHANGED <<bucket, dbfile, proc>>
    /\ UNCHANGED Ledger

\* A commit of the repo reaches the storage file.
WriteDb ==
    /\ Alive
    /\ dbfile < MaxWrites
    /\ dbfile' = dbfile + 1
    /\ UNCHANGED <<backup, bucket, proc>>
    /\ UNCHANGED Ledger

\* main receives SIGINT or SIGTERM: cancelBackup(), cancelEngine().
Signal ==
    /\ proc.main = "serving"
    /\ proc' = [proc EXCEPT !.main = "stopping", !.cancelled = TRUE,
                            !.engine = TRUE]
    /\ UNCHANGED <<backup, bucket, dbfile>>
    /\ UNCHANGED Ledger

\* srv.Shutdown returns and main returns: the process ends with every
\* goroutine where it is.
Exit ==
    /\ proc.main = "stopping"
    /\ proc' = [proc EXCEPT !.main = "exited"]
    /\ UNCHANGED <<backup, bucket, dbfile>>
    /\ UNCHANGED Ledger

NextBackup ==
    \/ TimerFires
    \/ ReceiveTick
    \/ OpenFails
    \/ OpenFile
    \/ ReadHead
    \/ UploadDone
    \/ UploadFails
    \/ StopBackup
    \/ WriteDb
    \/ Signal
    \/ Exit

\* The backup worker beside a running server, from start to process exit.
SpecBackup == InitBackup /\ [][NextBackup]_vars

(***************************************************************************)
(* Vocabulary of the backup properties.                                    *)
(***************************************************************************)

\* The step starts a backup cycle.
CycleStarts == backup.state = "Idle" /\ backup'.state = "Uploading"

\* The step ends a backup cycle.
CycleEnds == backup.state = "Uploading" /\ backup'.state # "Uploading"

\* The step ends a backup cycle in failure.
CycleFails == backup'.failures = backup.failures + 1

\* The one object a successful upload of body leaves in the bucket.
BackupObject(body) == [key |-> "backups/blog.db", body |-> body, acl |-> "private"]

C19_FailureKeepsSchedule ==
    /\ [][/\ CycleFails =>
               /\ backup.state = "Uploading" /\ backup'.state = "Idle"
               /\ backup'.log = "Backup failed"
               /\ backup'.tick = backup.tick /\ backup'.fired = backup.fired
               /\ UNCHANGED <<bucket, dbfile, proc>>
               /\ UNCHANGED Ledger
          /\ (backup'.failures > 0 /\ ~proc'.cancelled) =>
               backup'.state \in {"Idle", "Uploading"}]_vars
    /\ []((Alive /\ backup.state = "Idle" /\ backup.tick = 1) => ENABLED ReceiveTick)

\* The first cycle failed, the second one succeeded; the file was written
\* meanwhile and the process is serving.
C19_Witness ==
    /\ backup.failures = 1 /\ backup.cycles = 2
    /\ backup.log = "Backup successful"
    /\ bucket # {}
    /\ dbfile > 0
    /\ proc.main = "serving"

(***************************************************************************)
(* C20.  A started scheduler is always Idle, Uploading or Stopped.  Its    *)
(* state changes only from Idle to Uploading, by taking a tick from the    *)
(* ticker channel; from Uploading to Idle; and from Idle to Stopped, with  *)
(* backupCtx cancelled.  Stopped is terminal: nothing of the scheduler     *)
(* changes any more, no upload call is made and the bucket stays as it is. *)
(* (When no scheduler was started none ever exists.)                       *)
(***************************************************************************)
C20_StateMachine ==
    [][/\ IF backup.state = "None"
          THEN backup' = backup /\ bucket' = bucket
          ELSE backup'.state \in {"Idle", "Uploading", "Stopped"}
       /\ backup'.state # backup.state =>
            \/ /\ CycleStarts
               /\ backup.tick = 1 /\ backup'.tick = 0
            \/ backup.state = "Uploading" /\ backup'.state = "Idle"
            \/ /\ backup.state = "Idle" /\ backup'.state = "Stopped"
               /\ proc.cancelled
       /\ backup.state = "Stopped" =>
            /\ backup' = backup
            /\ bucket' = bucket]_vars

\* Stopped after one backup, with a tick left in the ticker channel that no
\* cycle will take.
C20_Witness ==
    /\ backup.state = "Stopped"
    /\ backup.cycles = 1 /\ backup.calls = 1
    /\ backup.tick = 1
    /\ proc.cancelled

(***************************************************************************)
(* C21.  Once backupCtx has been cancelled the scheduler begins no new     *)
(* backup cycle and starts no upload call, also when a tick is in the      *)
(* ticker channel at the moment of cancellation.                           *)
(* The select in Start has both cases ready in that situation and Go picks *)
(* one of them at random: case <-ticker.C runs performBackup(ctx) with the *)
(* cancelled context, which opens the file and calls UploadFile.           *)
(***************************************************************************)
C21_NoCycleAfterCancel ==
    [][proc.cancelled =>
         /\ ~CycleStarts
         /\ backup'.calls = backup.calls]_vars

(***************************************************************************)
(* The backup worker with the scheduling Go gives it.  The goroutine of    *)
(* Start is scheduled as long as the process lives: whenever it can take a *)
(* step it takes one (every call it makes returns: os.Open, PutObject with *)
(* its context and transport timeouts, the select with a ready case), and  *)
(* a select that finds ctx.Done() ready again and again takes that case at *)
(* some point (the choice among ready cases is uniformly random).  Nothing *)
(* is assumed of main, of the ticker or of the writers: no signal need     *)
(* arrive, and after one arrived the process may end at any moment.        *)
(***************************************************************************)
Worker ==
    \/ ReceiveTick
    \/ OpenFails
    \/ OpenFile
    \/ ReadHead
    \/ UploadDone
    \/ UploadFails
    \/ StopBackup

SpecBackupLive ==
    InitBackup /\ [][NextBackup]_vars /\ WF_vars(Worker) /\ SF_vars(StopBackup)

(***************************************************************************)
(* C22.  As claimed, in the form a finite run settles: when the run is     *)
(* over (the process has exited after the cancellation), a scheduler that  *)
(* was started has reached Stopped.                                        *)
(***************************************************************************)
C22_Original ==
    (proc.main = "exited" /\ backup.state # "None") => backup.state = "Stopped"

(***************************************************************************)
(* C22 as amended.  After backupCtx is cancelled a started scheduler       *)
(* reaches Stopped unless the process ends first, from Idle as well as     *)
(* from an upload in flight: an upload that has not completed when the     *)
(* context is cancelled ends in failure and leaves the bucket as it was.   *)
(* The shutdown sequence never waits for the scheduler: main can return in *)
(* every scheduler state, and it changes nothing of the scheduler.         *)
(***************************************************************************)
C22_StopsUnlessExited ==
    /\ (proc.cancelled /\ backup.state # "None")
          ~> (backup.state = "Stopped" \/ ~Alive)
    /\ [][/\ (proc.cancelled /\ CycleEnds) =>
               /\ CycleFails
               /\ bucket' = bucket
          /\ proc'.main # proc.main => backup' = backup]_vars
    /\ [](proc.main = "stopping" => ENABLED Exit)

\* Stopped with the process still shutting down, after a cycle whose upload
\* call was made and failed with the first part of the file read.
C22_Witness ==
    /\ backup.state = "Stopped"
    /\ proc.main = "stopping"
    /\ backup.cycles = 1 /\ backup.calls = 1 /\ backup.failures = 1
    /\ backup.body = <<0>>
    /\ bucket = {}

(***************************************************************************)
(* The server as main composes it: the repo serving calls while the backup *)
(* worker, when one was started, runs beside it in the same process, until *)
(* the process exits.  The repo and the worker share the process and the   *)
(* storage file and nothing else.  Two calls are in progress beside the    *)
(* worker, the least number with which every step of the repo occurs, the  *)
(* wait for the write lock and its timeout included; the content of the    *)
(* storage file is left out (SpecBackup has it).                           *)
(***************************************************************************)
Beside == {1, 2}

\* One step of call c of the repo.
LedgerStep(c) ==
    \/ GetStatsCall(c)
    \/ BeginTx(c)
    \/ InsertDedup(c)
    \/ UpdateCounter(c)
    \/ Commit(c)
    \/ GetStats(c)
    \/ BusyTimeout(c)

\* One step of the ticker, of the worker's goroutine or of main.
SchedulerStep ==
    \/ TimerFires
    \/ ReceiveTick
    \/ OpenFails
    \/ OpenFile
    \/ ReadHead
    \/ UploadDone
    \/ UploadFails
    \/ StopBackup
    \/ Signal
    \/ Exit

\* Calls are served as long as the process lives.
NextService ==
    \/ \E c \in Beside : Alive /\ LedgerStep(c)
    \/ SchedulerStep

SpecService == InitBackup /\ [][NextService]_vars

\* Backups are enabled by the environment.
BackupsEnabled == proc.environ.ENV = "prod"

\* The committed counters of every slug equal its numbers of dedup records.
CountersMatch ==
    \A slug \in Slugs :
        /\ Store.post_stats[slug].views = Cardinality(Viewers(slug))
        /\ Store.post_stats[slug].likes = Cardinality(Likers(slug))

(***************************************************************************)
(* C23.  With backups not enabled by the environment (ENV is not prod) no  *)
(* backup worker exists at any time of the run and nothing is ever         *)
(* uploaded, while the repo serves as it does by itself: whether a step of *)
(* a call can be taken is decided by the call and the write lock alone,    *)
(* exactly as the repo's own conditions say, and the committed counters    *)
(* keep matching the dedup records.                                        *)
(***************************************************************************)
C23_DisabledBackupsNoOp ==
    ~BackupsEnabled =>
        /\ backup = NoWorker
        /\ bucket = {}
        /\ \A c \in Beside :
             /\ (ENABLED GetStatsCall(c)) = CanStart(c)
             /\ (ENABLED BeginTx(c)) = CanStart(c)
             /\ (ENABLED InsertDedup(c)) = (call[c].pc = "insert" /\ wlock = 0)
             /\ (ENABLED UpdateCounter(c)) = (call[c].pc = "update")
             /\ (ENABLED Commit(c)) = (call[c].pc = "commit")
             /\ (ENABLED GetStats(c)) = (call[c].pc = "getstats" /\ wlock = 0)
             /\ (ENABLED BusyTimeout(c)) =
                    (call[c].pc \in {"insert", "getstats"} /\ wlock # 0)
        /\ wlock = 0 => CountersMatch

\* ENV is dev, the server is serving: a view was counted and a later
\* GetStats returned it; no worker, nothing uploaded.
C23_Witness ==
    /\ proc.environ.ENV = "dev"
    /\ proc.main = "serving"
    /\ backup = NoWorker
    /\ bucket = {}
    /\ Ok(1) /\ call[1].op = "IncrementViews" /\ call[1].views = 1
    /\ Ok(2) /\ call[2].op = "GetStats" /\ call[2].views = 1

(***************************************************************************)
(* C24.  With backups enabled (ENV is prod) and a required credential      *)
(* missing (SPACES_KEY, SPACES_SECRET, SPACES_ENDPOINT, SPACES_REGION or   *)
(* SPACES_BUCKET unset), the creation of the backup client fails and no    *)
(* scheduler exists in that run, while main goes on serving.               *)
(* NewSpaceClient passes whatever os.Getenv returns, the empty string      *)
(* included, to the SDK and tests none of it: the client is created and    *)
(* the scheduler is started.                                               *)
(***************************************************************************)
C24_MissingCredentialNoScheduler ==
    (BackupsEnabled /\ ~proc.environ.creds) =>
        /\ ~NewSpaceClient(proc.environ)
        /\ backup = NoWorker
        /\ bucket = {}

\* A step of the backup scheduler: of its ticker, of its goroutine (the
\* start of a cycle, the open, a read, the end of an upload, a failure, the
\* stop), or the cancellation of backupCtx.
BackupStep ==
    \/ backup' # backup
    \/ bucket' # bucket
    \/ proc'.cancelled # proc.cancelled

(***************************************************************************)
(* C25.  No step of the backup scheduler changes the store (a post_stats   *)
(* row, a dedup record, committed or in a transaction), the write lock, a  *)
(* call in progress or its result; and no such step makes a step of a      *)
(* GetStats, IncrementViews or IncrementLikes call possible or impossible: *)
(* whatever a call could do before the scheduler's step (start, take the   *)
(* write lock, update, commit, read, time out waiting) it can do after it, *)
(* and nothing else, in every state of the scheduler.                      *)
(***************************************************************************)
C25_BackupFrame ==
    [][BackupStep =>
         /\ UNCHANGED <<post_stats, ip_views, ip_likes, wlock, wtx, call, http>>
         /\ \A c \in Beside :
              /\ (ENABLED GetStatsCall(c)) = (ENABLED GetStatsCall(c))'
              /\ (ENABLED BeginTx(c)) = (ENABLED BeginTx(c))'
              /\ (ENABLED InsertDedup(c)) = (ENABLED InsertDedup(c))'
              /\ (ENABLED UpdateCounter(c)) = (ENABLED UpdateCounter(c))'
              /\ (ENABLED Commit(c)) = (ENABLED Commit(c))'
              /\ (ENABLED GetStats(c)) = (ENABLED GetStats(c))'
              /\ (ENABLED BusyTimeout(c)) = (ENABLED BusyTimeout(c))']_vars

\* The second backup is reading the file (the first one is in the bucket)
\* while one call holds the write lock before its commit and another one is
\* at its first statement.
C25_Witness ==
    /\ backup.state = "Uploading" /\ backup.step = "tail"
    /\ backup.cycles = 2
    /\ bucket # {}
    /\ wlock = 1 /\ call[1].pc = "commit"
    /\ call[2].pc = "insert"

(***************************************************************************)
(* C26.  The content uploaded by a backup cycle is the content the storage *)
(* file had at one single instant of that cycle (and with it a state of    *)
(* the store in which the counters match the dedup records), also when     *)
(* writes reach the file while it is streamed.                             *)
(* PutObject streams the open file part after part with no lock and no     *)
(* snapshot; a write that reaches the file between two reads leaves the    *)
(* uploaded object with parts of two different contents.                   *)
(***************************************************************************)
C26_UploadIsSnapshot ==
    \A o \in bucket : \E v \in 0..MaxWrites : o.body = FileContent(v)

(***************************************************************************)
(* The ledger with the cancellation of a call's context as database/sql    *)
(* carries it out.  BeginTx with a cancellable context starts a goroutine  *)
(* (Tx.awaitDone) that rolls the transaction back when the context is      *)
(* done.  It and the call's deferred tx.Rollback() race for the            *)
(* transaction's done flag: the loser returns ErrTxDone at once.  When the *)
(* deferred Rollback wins, the transaction is ended before the call        *)
(* returns (Fail).  When awaitDone wins, the call's next statement and its *)
(* deferred Rollback return at once, and the ROLLBACK that releases the    *)
(* write lock runs in the other goroutine, before or after the return of   *)
(* the call.                                                               *)
(***************************************************************************)

\* ctx is cancelled inside the transaction and awaitDone has taken the done
\* flag: the call returns the error, its rollback still to come.
CancelReturn(c) ==
    /\ call[c].pc \in {"update", "commit"}
    /\ wlock = c
    /\ ReturnErr(c, "cancelled")
    /\ UNCHANGED <<post_stats, ip_views, ip_likes, wlock, wtx>>
    /\ UNCHANGED env

\* Tx.awaitDone runs the ROLLBACK of a call that has returned.
AwaitDone(c) ==
    /\ call[c].pc = "done"
    /\ wlock = c
    /\ wlock' = 0
    /\ wtx' = NoTx
    /\ UNCHANGED <<post_stats, ip_views, ip_likes, call>>
    /\ UNCHANGED env

NextCancel ==
    \/ NextFault
    \/ \E c \in Calls : CancelReturn(c)
    \/ \E c \in Calls : AwaitDone(c)

SpecCancel == Init /\ [][NextCancel]_vars

\* Every call other than c that was started has returned.
OthersReturned(c) == \A d \in Started \ {c} : Done(d)

(***************************************************************************)
(* C27.  As claimed: a transaction of IncrementViews or IncrementLikes is  *)
(* ended before the call returns, on every exit path (success, dedup       *)
(* no-op, an error at any statement, a cancellation).  The write lock is   *)
(* held only by a call that is inside its transaction; a call that has     *)
(* returned holds neither lock nor transaction; a call is never blocked by *)
(* calls that have returned: when every other call has returned, its next  *)
(* statement can run and cannot time out waiting for the lock.             *)
(***************************************************************************)
C27_Original ==
    /\ wlock # 0 =>
          /\ wlock \in Calls
          /\ call[wlock].pc \in {"update", "commit"}
    /\ \A c \in Calls :
          (OthersReturned(c) /\ call[c].pc \in {"insert", "getstats"}) =>
              /\ wlock = 0
              /\ ~ENABLED BusyTimeout(c)

\* The rollback of a returned call is still to come.
RollbackPending(c) == Done(c) /\ wlock = c

(***************************************************************************)
(* C27 as amended.  Every exit path of IncrementViews and IncrementLikes   *)
(* ends the transaction the call opened.  On success, on a dedup no-op and *)
(* on an error of a statement or of the commit it is ended before the call *)
(* returns: such a call holds neither write lock nor transaction once it   *)
(* has committed or returned.  On cancellation the rollback can also run   *)
(* just after the call has returned: a returned call holds the write lock  *)
(* only if it returned the cancellation error, and then its rollback can   *)
(* run at once and releases it.  Apart from that the lock is held only by  *)
(* a call inside its transaction, and with no lock held no transaction is  *)
(* open.  When every other call has returned and no rollback is pending, a *)
(* call's next statement can run and cannot time out waiting for the lock. *)
(***************************************************************************)
C27_TxEndsOnEveryPath ==
    /\ wlock # 0 =>
          /\ wlock \in Calls
          /\ call[wlock].op \in IncOps
          /\ \/ call[wlock].pc \in {"update", "commit"}
             \/ /\ RollbackPending(wlock)
                /\ call[wlock].err = "cancelled"
                /\ ENABLED AwaitDone(wlock)
    /\ wlock = 0 => wtx = NoTx
    /\ \A c \in Calls :
          /\ (call[c].pc \in {"idle", "insert", "getstats"}) => wlock # c
          /\ (Done(c) /\ call[c].err # "cancelled") => wlock # c
          /\ (/\ OthersReturned(c)
              /\ \A d \in Calls : ~RollbackPending(d)
              /\ call[c].pc \in {"insert", "getstats"}) =>
                /\ wlock = 0
                /\ ~ENABLED BusyTimeout(c)
                /\ call[c].pc = "insert" => ENABLED InsertDedup(c)
                /\ call[c].pc = "getstats" => ENABLED GetStats(c)

\* One call was cancelled inside its transaction, after its insert had taken
\* the write lock, and its rollback has run; the other call for the same pair
\* then found no record, was counted and returned views 1.
C27_Witness ==
    /\ call[1].op = "IncrementViews" /\ call[1].err = "cancelled"
    /\ call[1].rows = 1 /\ call[1].inc = 0
    /\ wlock = 0
    /\ call[2].op = "IncrementViews" /\ call[2].ip = call[1].ip
    /\ call[2].slug = call[1].slug
    /\ Ok(2) /\ call[2].inc = 1 /\ call[2].views = 1

\* Call c of operation op executes its dedup insert in this step.
InsertOf(c, op) ==
    /\ StepOf(c, op)
    /\ call[c].pc = "insert" /\ call'[c].pc \in {"update", "commit"}

\* Call c of operation op commits a counted increment in this step.
CountedCommitOf(c, op) ==
    /\ StepOf(c, op)
    /\ call[c].pc = "commit" /\ call'[c].pc = "getstats"
    /\ call[c].rows = 1

(***************************************************************************)
(* C28.  The view dedup set and the like dedup set are independent.  The   *)
(* dedup insert of an IncrementLikes call conflicts exactly when ip_likes  *)
(* holds the pair, whether or not ip_views holds it; when ip_likes does    *)
(* not hold it the call goes on to its increment, and its commit adds the  *)
(* ip_likes record and raises likes of the slug by 1, leaving ip_views and *)
(* views as they are.  The same holds for IncrementViews with ip_views and *)
(* ip_likes exchanged.                                                     *)
(***************************************************************************)
C28_DedupSetsIndependent ==
    [][\A c \in Calls :
         LET pair == <<call[c].ip, call[c].slug>>
             slug == call[c].slug
         IN /\ InsertOf(c, "IncrementLikes") =>
                 /\ call'[c].rows = IF ip_likes[pair] = 0 THEN 1 ELSE 0
                 /\ ip_likes[pair] = 0 => call'[c].pc = "update"
            /\ InsertOf(c, "IncrementViews") =>
                 /\ call'[c].rows = IF ip_views[pair] = 0 THEN 1 ELSE 0
                 /\ ip_views[pair] = 0 => call'[c].pc = "update"
            /\ CountedCommitOf(c, "IncrementLikes") =>
                 /\ ip_likes[pair] = 0 /\ ip_likes'[pair] = 1
                 /\ post_stats'[slug].likes = post_stats[slug].likes + 1
                 /\ post_stats'[slug].views = post_stats[slug].views
                 /\ ip_views' = ip_views
            /\ CountedCommitOf(c, "IncrementViews") =>
                 /\ ip_views[pair] = 0 /\ ip_views'[pair] = 1
                 /\ post_stats'[slug].views = post_stats[slug].views + 1
                 /\ post_stats'[slug].likes = post_stats[slug].likes
                 /\ ip_likes' = ip_likes]_vars

\* A view and a like of the same pair were both counted, the like committed
\* with the view record already in the store.
C28_Witness ==
    \E c, d \in Calls :
        /\ call[c].op = "IncrementViews" /\ call[d].op = "IncrementLikes"
        /\ call[c].ip = call[d].ip /\ call[c].slug = call[d].slug
        /\ Ok(c) /\ call[c].inc = 1
        /\ Ok(d) /\ call[d].inc = 1
        /\ call[d].cviews = 1 /\ call[d].clikes = 1
        /\ call[c].clikes = 0
        /\ post_stats[call[c].slug] = Row(1, 1)

\* Call c, an IncrementViews whose insert found the dedup record of its pair
\* present, returns success in this step.
NoOpViewReturns(c) ==
    /\ StepOf(c, "IncrementViews")
    /\ call[c].pc = "getstats" /\ call[c].rows = 0
    /\ call'[c].pc = "done" /\ call'[c].err = ""

(***************************************************************************)
(* C29.  An IncrementViews call that found the dedup record of its pair    *)
(* present and returns success returns views of at least 1 and of at least *)
(* the number of ip_views records of its slug in the store when it         *)
(* returns: the increment that came with the record that blocked it is     *)
(* never missing.  Records are never removed, so that number is at least   *)
(* the number of records committed before the call started.  The call      *)
(* itself has committed nothing.                                           *)
(***************************************************************************)
C29_NoOpSeesBlockingIncrement ==
    [][/\ \A c \in Calls :
            NoOpViewReturns(c) =>
                /\ ip_views[<<call[c].ip, call[c].slug>>] = 1
                /\ call'[c].views >= 1
                /\ call'[c].views >= Cardinality(Viewers(call[c].slug))
                /\ call'[c].inc = 0
       /\ \A slug \in Slugs :
            /\ Viewers(slug) \subseteq Viewers(slug)'
            /\ post_stats'[slug].views >= post_stats[slug].views]_vars

\* The loser of a race: the call started when the record of its pair was not
\* there, found it at its insert, and returned the winner's count.
C29_Witness ==
    \E c, d \in Calls :
        /\ call[c].op = "IncrementViews" /\ call[d].op = "IncrementViews"
        /\ call[c].ip = call[d].ip /\ call[c].slug = call[d].slug
        /\ call[c].inc = 1
        /\ ~call[d].pre /\ call[d].rows = 0 /\ call[d].inc = 0
        /\ Ok(d) /\ call[d].views = 1

\* The identities whose call of operation op on slug committed an increment.
CountedIdentities(op, slug) ==
    {call[c].ip : c \in {d \in Calls : /\ call[d].op = op
                                        /\ call[d].slug = slug
                                        /\ call[d].inc = 1}}

\* The number of GetStats statements that have run on slug: GetStats calls
\* that returned and increments past their trailing GetStats.
ReadsOf(slug) ==
    Cardinality({c \in Calls : /\ call[c].slug = slug
                               /\ Done(c) /\ call[c].err = ""})

(***************************************************************************)
(* C30.  GetStats never resets or loses a count.  In every interleaving of *)
(* GetStats, IncrementViews and IncrementLikes calls, at every moment and  *)
(* so at the end, views and likes of every slug equal the numbers of       *)
(* distinct identities whose increment on the slug has committed, however  *)
(* many GetStats statements have run on the slug and whether or not one of *)
(* them created its row: the counts are those of the increments alone.  A  *)
(* slug has a row exactly when a GetStats statement or a counted increment *)
(* has reached it.                                                         *)
(***************************************************************************)
C30_GetStatsLosesNothing ==
    \A slug \in Slugs :
        /\ post_stats[slug].views =
              Cardinality(CountedIdentities("IncrementViews", slug))
        /\ post_stats[slug].likes =
              Cardinality(CountedIdentities("IncrementLikes", slug))
        /\ post_stats[slug].present =
              \/ ReadsOf(slug) > 0
              \/ CountedIdentities("IncrementViews", slug) # {}
              \/ CountedIdentities("IncrementLikes", slug) # {}

\* GetStats created the row of a slug (it returned 0, 0) and a view of the
\* slug was counted on that row: the row holds views 1 and the increment
\* returned 1.
C30_Witness ==
    \E c, d \in Calls :
        /\ call[c].op = "GetStats" /\ Ok(c)
        /\ call[c].views = 0 /\ call[c].likes = 0
        /\ call[d].op = "IncrementViews" /\ call[d].slug = call[c].slug
        /\ Ok(d) /\ call[d].inc = 1 /\ call[d].views = 1
        /\ post_stats[call[c].slug] = Row(1, 0)

\* Everything the store holds of slug: its row and its dedup records.
OfSlug(st, slug) ==
    [row |-> st.post_stats[slug],
     views |-> {ip \in Ips : st.ip_views[<<ip, slug>>] > 0},
     likes |-> {ip \in Ips : st.ip_likes[<<ip, slug>>] > 0}]

(***************************************************************************)
(* C31.  Ledger operations on one slug leave every other slug untouched:   *)
(* no step of a GetStats, IncrementViews or IncrementLikes call on slug A  *)
(* changes the row or a dedup record of a slug B other than A, and an open *)
(* transaction holds of every other slug what is committed.  An identity   *)
(* is counted once on each slug it views: after a successful               *)
(* IncrementViews the pair has its own ip_views record, whatever other     *)
(* slugs the identity viewed, and views of each slug is the number of      *)
(* identities recorded for that slug, so an identity that viewed k slugs   *)
(* raised each of the k counters by exactly 1.                             *)
(***************************************************************************)
C31_SlugsIndependent ==
    /\ [][\A c \in Calls :
            call'[c] # call[c] =>
                \A slug \in Slugs \ {call'[c].slug} :
                    OfSlug(Store, slug) = OfSlug(Store, slug)']_vars
    /\ [](wlock # 0 =>
            \A slug \in Slugs \ {call[wlock].slug} :
                OfSlug(wtx, slug) = OfSlug(Store, slug))
    /\ [](\A c \in Calls :
            (call[c].op = "IncrementViews" /\ Ok(c)) =>
                /\ ip_views[<<call[c].ip, call[c].slug>>] = 1
                /\ \A slug \in Slugs :
                     post_stats[slug].views = Cardinality(Viewers(slug)))

\* One identity viewed two slugs: each slug has views 1 and its own record.
C31_Witness ==
    /\ call[1].op = "IncrementViews" /\ call[2].op = "IncrementViews"
    /\ call[1].ip = call[2].ip /\ call[1].slug # call[2].slug
    /\ Ok(1) /\ call[1].inc = 1 /\ call[1].views = 1
    /\ Ok(2) /\ call[2].inc = 1 /\ call[2].views = 1
    /\ \A slug \in {call[1].slug, call[2].slug} :
         /\ post_stats[slug] = Row(1, 0)
         /\ Viewers(slug) = {call[1].ip}

CtxDone(s) == proc.engine \/ proc.streams[s].gone

\* HandleStreamStats is running for stream s.
Open(s) == proc.streams[s].pos \in {"send", "select"}

\* The listeners accept requests: srv.Shutdown has not been called.
Listening == proc.main \in {"serving", "backupCancelled", "engineCancelled"}

\* No handler is running: no stream is open and no call of the repo is in
\* progress.
Quiet ==
    /\ \A s \in Streams : ~Open(s)
    /\ \A c \in Beside : call[c].pc \in {"idle", "done"}

\* A request for the stats stream arrives: headers, Flush, NewTicker, and the
\* handler enters the first sendStats().
OpenStream(s) ==
    /\ Listening
    /\ proc.streams[s].pos = "none"
    /\ \A t \in Streams : t < s => proc.streams[t].pos # "none"
    /\ proc' = [proc EXCEPT !.streams[s].pos = "send"]
    /\ UNCHANGED <<backup, bucket, dbfile>>
    /\ UNCHANGED Ledger

\* sendStats() returns nil: the handler goes to the select.
SendStats(s) ==
    /\ Alive
    /\ proc.streams[s].pos = "send"
    /\ proc' = [proc EXCEPT !.streams[s].pos = "select"]
    /\ UNCHANGED <<backup, bucket, dbfile>>
    /\ UNCHANGED Ledger

\* sendStats() returns the error of the write: the handler returns.
SendFails(s) ==
    /\ Alive
    /\ proc.streams[s].pos = "send"
    /\ proc' = [proc EXCEPT !.streams[s].pos = "returned"]
    /\ UNCHANGED <<backup, bucket, dbfile>>
    /\ UNCHANGED Ledger

\* case <-ticker.C of the handler's select: the next sendStats().
StreamTick(s) ==
    /\ Alive
    /\ proc.streams[s].pos = "select"
    /\ proc' = [proc EXCEPT !.streams[s].pos = "send"]
    /\ UNCHANGED <<backup, bucket, dbfile>>
    /\ UNCHANGED Ledger

\* case <-r.Context().Done() of the handler's select: the handler returns.
StreamDone(s) ==
    /\ Alive
    /\ proc.streams[s].pos = "select"
    /\ CtxDone(s)
    /\ proc' = [proc EXCEPT !.streams[s].pos = "returned"]
    /\ UNCHANGED <<backup, bucket, dbfile>>
    /\ UNCHANGED Ledger

\* The client of an open stream closes its connection.
ClientGone(s) ==
    /\ Alive
    /\ Open(s)
    /\ ~proc.streams[s].gone
    /\ proc' = [proc EXCEPT !.streams[s].gone = TRUE]
    /\ UNCHANGED <<backup, bucket, dbfile>>
    /\ UNCHANGED Ledger

\* A request for a repo operation arrives and its handler enters the call.
Arrives(c) ==
    /\ Listening
    /\ \/ GetStatsCall(c)
       \/ BeginTx(c)

\* A statement of call c runs on a request context that is not cancelled.
Statement(c) ==
    /\ Alive
    /\ ~proc.engine
    /\ \/ InsertDedup(c)
       \/ UpdateCounter(c)
       \/ Commit(c)
       \/ GetStats(c)

\* The wait of call c for the write lock times out.
LockWaitEnds(c) ==
    /\ Alive
    /\ BusyTimeout(c)

\* The next statement of call c finds the request context cancelled.
ContextCancelled(c) ==
    /\ Alive
    /\ proc.engine
    /\ Fail(c)

\* A main that goes on from cancelBackup() without cancelling engineCtx.
SkipCancelEngine ==
    /\ proc.main = "backupCancelled"
    /\ proc' = [proc EXCEPT !.main = "engineCancelled"]
    /\ UNCHANGED <<backup, bucket, dbfile>>
    /\ UNCHANGED Ledger

\* main receives SIGINT or SIGTERM, creates shutdownCtx and runs
\* cancelBackup().
CancelBackup ==
    /\ proc.main = "serving"
    /\ proc' = [proc EXCEPT !.main = "backupCancelled", !.cancelled = TRUE]
    /\ UNCHANGED <<backup, bucket, dbfile>>
    /\ UNCHANGED Ledger

\* cancelEngine().
CancelEngine ==
    /\ proc.main = "backupCancelled"
    /\ proc' = [proc EXCEPT !.main = "engineCancelled", !.engine = TRUE]
    /\ UNCHANGED <<backup, bucket, dbfile>>
    /\ UNCHANGED Ledger

\* main calls srv.Shutdown(shutdownCtx): the listeners are closed.
ShutdownCall ==
    /\ proc.main = "engineCancelled"
    /\ proc' = [proc EXCEPT !.main = "stopping"]
    /\ UNCHANGED <<backup, bucket, dbfile>>
    /\ UNCHANGED Ledger

\* srv.Shutdown returns nil and main returns.
ShutdownReturns ==
    /\ Quiet
    /\ Exit

\* shutdownCtx expires with a handler still running: srv.Shutdown returns
\* the error and log.Fatalf ends the process.
ShutdownTimeout ==
    /\ ~Quiet
    /\ Exit

InitShutdown ==
    /\ post_stats = EmptyStats
    /\ ip_views = EmptyDedup
    /\ ip_likes = EmptyDedup
    /\ wlock = 0
    /\ wtx = NoTx
    /\ call = [c \in Calls |-> IdleCall]
    /\ http = NoExchange
    /\ bucket = {}
    /\ dbfile = 0
    /\ proc = Serving(Environ("prod", TRUE, TRUE))
    /\ backup = Running

NextShutdown ==
    \/ \E s \in Streams : OpenStream(s)
    \/ \E s \in Streams : SendStats(s)
    \/ \E s \in Streams : SendFails(s)
    \/ \E s \in Streams : StreamTick(s)
    \/ \E s \in Streams : StreamDone(s)
    \/ \E s \in Streams : ClientGone(s)
    \/ \E c \in Beside : Arrives(c)
    \/ \E c \in Beside : Statement(c)
    \/ \E c \in Beside : LockWaitEnds(c)
    \/ \E c \in Beside : ContextCancelled(c)
    \/ StopBackup
    \/ CancelBackup
    \/ CancelEngine
    \/ ShutdownCall
    \/ ShutdownReturns
    \/ ShutdownTimeout

\* The server with open streams and repo calls, from serving to process exit.
SpecShutdown == InitShutdown /\ [][NextShutdown]_vars

\* Call c of the repo is in progress.
InProgress(c) == call[c].pc \notin {"idle", "done"}

(***************************************************************************)
(* C34.  As claimed: after the shutdown signal every open stats stream     *)
(* handler returns and no storage operation stays in progress, so that     *)
(* the process ends with no handler running.                               *)
(***************************************************************************)
C34_Original == proc.main = "exited" => Quiet

(***************************************************************************)
(* C34.  On a shutdown signal main cancels the backup context, then the    *)
(* engine context, and only then calls srv.Shutdown.  From the moment the  *)
(* engine context is cancelled: the context of every request is done, so   *)
(* every stream handler waiting in its select can return; no statement of  *)
(* a call in progress runs any more, the next step of such a call ends it  *)
(* with an error and without the write lock, and the store stays as it is. *)
(* A handler that is still running when srv.Shutdown is called returns     *)
(* unless the 5 s deadline of srv.Shutdown comes first: srv.Shutdown       *)
(* returns nil only when no handler is running, and otherwise the process  *)
(* ends with the handler where it is.                                      *)
(***************************************************************************)
C34_ShutdownCancelsRequests ==
    /\ [][/\ proc'.main = "stopping" => proc.cancelled /\ proc.engine
          /\ proc'.engine => proc.cancelled
          /\ proc.engine =>
               /\ UNCHANGED <<post_stats, ip_views, ip_likes>>
               /\ \A c \in Beside :
                    (InProgress(c) /\ call'[c] # call[c]) =>
                        /\ call'[c].pc = "done"
                        /\ call'[c].err # ""
                        /\ wlock' # c]_vars
    /\ []((Alive /\ proc.engine) =>
            /\ \A s \in Streams :
                 /\ Open(s) => CtxDone(s)
                 /\ proc.streams[s].pos = "select" => ENABLED StreamDone(s)
            /\ \A c \in Beside :
                 InProgress(c) => ENABLED ContextCancelled(c))
    /\ [](proc.main \in {"stopping", "exited"} => proc.engine)
    /\ []((proc.main = "stopping" /\ ~Quiet) => ~ENABLED ShutdownReturns)

\* srv.Shutdown has been called: one stream handler has returned, the other
\* waits in its select with its context done, and a call that had inserted
\* its dedup record has ended with the cancellation error, the write lock
\* free and nothing stored.
C34_Witness ==
    /\ proc.main = "stopping"
    /\ proc.streams[1] = [pos |-> "returned", gone |-> FALSE]
    /\ proc.streams[2] = [pos |-> "select", gone |-> FALSE]
    /\ call[1].pc = "done"
    /\ call[1].err = "fault"
    /\ call[1].rows = 1
    /\ wlock = 0
    /\ post_stats = EmptyStats

(***************************************************************************)
(* Progress of the calls.  Every call runs in the goroutine of its         *)
(* request; the scheduler of Go runs every goroutine that can run, and a   *)
(* statement that waits for the write lock returns SQLITE_BUSY when        *)
(* busy_timeout (5 s) has passed.                                          *)
(***************************************************************************)

\* The next statement of call c, or the end of its wait for the lock.
CallStep(c) ==
    \/ InsertDedup(c)
    \/ UpdateCounter(c)
    \/ Commit(c)
    \/ GetStats(c)
    \/ BusyTimeout(c)

\* The ledger with every call in progress taking its steps.
SpecLive == Init /\ [][Next]_vars /\ \A c \in Calls : WF_vars(CallStep(c))

(***************************************************************************)
(* C35.  Every call of IncrementViews and IncrementLikes (and of GetStats) *)
(* that was started returns, with success or with an error, whatever the   *)
(* other calls do: a call in progress always has a step to take, a call    *)
(* that waits for the write lock can take the lock as soon as no other     *)
(* call holds it and can give up with the busy error as long as one does,  *)
(* and the holder of the lock is never made to wait.                       *)
(***************************************************************************)
C35_EveryCallTerminates ==
    /\ \A c \in Calls : InProgress(c) ~> Done(c)
    /\ [](\A c \in Calls :
            /\ InProgress(c) => ENABLED CallStep(c)
            /\ (call[c].pc = "insert" /\ wlock = 0) => ENABLED InsertDedup(c)
            /\ (call[c].pc = "insert" /\ wlock # 0) =>
                   /\ ENABLED BusyTimeout(c)
                   /\ ~ENABLED InsertDedup(c)
            /\ wlock = c => ENABLED (UpdateCounter(c) \/ Commit(c))
            /\ Done(c) => call[c].err \in {"", "busy"})

\* Two writers: the first has committed and returned with success, the
\* second waited for the write lock and gave up with the busy error.
C35_Witness ==
    /\ call[1].op \in IncOps
    /\ Ok(1)
    /\ call[1].inc = 1
    /\ call[2].op \in IncOps
    /\ Done(2)
    /\ call[2].err = "busy"

(***************************************************************************)
(* One view or like request with every shape of the forwarding header,     *)
(* beside an X-Real-IP header and a RemoteAddr that are an address or are  *)
(* none: GetClientIP and the handler's test of its result.                 *)
(***************************************************************************)

\* X-Real-IP of the request: not set, an address, no address.
OriginReals == {EmptyString, Bare(Dotted(1)), Bare(Garbage)}

\* RemoteAddr of the request: an address or no address, with a port.
OriginRemotes == {WithPort(Dotted(2)), WithPort(Garbage)}

\* The store is empty and a request has been received.
InitOrigin ==
    /\ post_stats = [s \in ReqSlugs |-> NoRow]
    /\ ip_views = [k \in HttpKeys |-> 0]
    /\ ip_likes = [k \in HttpKeys |-> 0]
    /\ wlock = 0
    /\ wtx = NoTx
    /\ call = [c \in Calls |-> IdleCall]
    /\ NoBackup
    /\ \E xff \in XffValues, xrip \in OriginReals, remote \in OriginRemotes,
          slug \in ReqSlugs :
         http = [NoExchange EXCEPT !.xff = xff, !.xrip = xrip,
                                   !.remote = remote, !.slug = slug]

\* The request is POST /api/views/{slug}.
ViewRequest ==
    /\ http.n = 0
    /\ ServeIncrement([http EXCEPT !.n = 1, !.handler = "HandleView"],
                      "IncrementViews")
    /\ UNCHANGED <<wlock, wtx, call>>
    /\ UNCHANGED bvars

\* The request is POST /api/likes/{slug}.
LikeRequest ==
    /\ http.n = 0
    /\ ServeIncrement([http EXCEPT !.n = 1, !.handler = "HandleLike"],
                      "IncrementLikes")
    /\ UNCHANGED <<wlock, wtx, call>>
    /\ UNCHANGED bvars

NextOrigin == ViewRequest \/ LikeRequest

SpecOrigin == InitOrigin /\ [][NextOrigin]_vars

(***************************************************************************)
(* C36.  A view or like request with a valid slug whose X-Forwarded-For    *)
(* header is not empty is identified by the first entry of that header     *)
(* and by nothing else.  When the first entry is no address (garbage, an   *)
(* empty entry, a bracketed host without a port) the identity is the empty *)
(* string and the response is 400 "invalid request ip" with no repo        *)
(* operation and the store untouched, whatever X-Real-IP, RemoteAddr and   *)
(* the later entries hold; when it is an address the identity is its       *)
(* normalization and the repo is called with it.                           *)
(***************************************************************************)
C36_FirstEntryOnly ==
    [][(Served /\ http'.xff # <<>> /\ ~BadSlug(http'.slug)) =>
          IF NotAnAddress(http'.xff[1])
          THEN /\ http'.ip = EmptyString
               /\ http'.status = 400
               /\ http'.msg = "invalid request ip"
               /\ http'.op = "none"
               /\ StoreSame
          ELSE /\ http'.ip = NormalizeIP(http'.xff[1])
               /\ http'.ip # EmptyString
               /\ http'.op \in IncOps
               /\ http'.status \in {200, 500}]_vars

\* A view whose forwarding header starts with garbage was rejected although
\* its second entry, its X-Real-IP and its RemoteAddr are addresses.
C36_Witness ==
    /\ http.n = 1
    /\ http.handler = "HandleView"
    /\ http.slug = <<"a", "-", "1">>
    /\ http.xff = <<Bare(Garbage), Bare(Dotted(1))>>
    /\ http.xrip = Bare(Dotted(1))
    /\ http.remote = WithPort(Dotted(2))
    /\ http.ip = EmptyString
    /\ http.status = 400
    /\ http.msg = "invalid request ip"
    /\ http.op = "none"

(***************************************************************************)
(* C37.  NormalizeIP is idempotent: for every address string on which it   *)
(* succeeds, NormalizeIP of its output is that output.  The identity a     *)
(* handler derives, and every identity stored as a dedup key, is not empty *)
(* and is a fixed point of NormalizeIP.                                    *)
(***************************************************************************)
C37_NormalizeIdempotent ==
    /\ \A a \in AddrStrings :
         NormalizeIP(a) # EmptyString =>
             NormalizeIP(NormalizeIP(a)) = NormalizeIP(a)
    /\ (http.n = 1 /\ http.ip # EmptyString) => NormalizeIP(http.ip) = http.ip
    /\ \A k \in HttpKeys :
         (ip_views[k] > 0 \/ ip_likes[k] > 0) =>
             /\ k[1] # EmptyString
             /\ NormalizeIP(k[1]) = k[1]

\* A view forwarded for a colon-hex address, not in its canonical spelling
\* and with a port, was counted under the canonical text of its /64 prefix.
C37_Witness ==
    /\ http.n = 1
    /\ http.xff = <<WithPort(Hex(IPv6(1, 2), FALSE))>>
    /\ http.ip = Bare(Hex(<<1, 0, 0>>, TRUE))
    /\ http.status = 200
    /\ ip_views[<<Bare(Hex(<<1, 0, 0>>, TRUE)), <<"a", "-", "1">>>>] = 1

====
